---------------------------- MODULE Spec2Model ----------------------------
(***************************************************************************)
(* A model of the streaming byte I/O core of io2 (src/src/io): the         *)
(* in-memory Cursor over its three storage kinds (mem.rs), the slice and   *)
(* Vec impls it delegates to (impls.rs), and the Take / Repeat / Bytes     *)
(* adaptors (mod.rs, util.rs).                                             *)
(*                                                                         *)
(* Machine integers keep their two's-complement behaviour but at a scaled  *)
(* width: u64 / i64 / usize are modelled as Bits-bit words, so that the    *)
(* `as i64` casts and the additions of seek! wrap exactly where the 64-bit *)
(* ones do, at a size TLC can enumerate.                                   *)
(***************************************************************************)
EXTENDS Integers, Sequences, FiniteSets, TLC

\* ------------------------------------------------------------------ bounds

\* Width, in bits, of the scaled machine word standing in for u64/i64/usize.
Bits == 4
\* Byte values run over 0..MaxByte.
MaxByte == 1
\* Longest storage a Cursor is created over.
MaxLen == 2
\* Longest buffer a caller passes to read or write.
MaxBuf == 2
\* Largest magnitude of a seek argument in ordinary use (Spec).
MaxSeek == 3
\* Largest position / growable-buffer length explored by Spec.
MaxPos == 3

\* Largest limit a Take is made with.
MaxLimit == 5

\* Most scalar values in the text a Chars is made over.
MaxText == 2
\* Most bytes in a source of arbitrary bytes a Chars is made over.
MaxRaw == 3

\* ------------------------------------------------------- machine integers

TwoW == 2 ^ Bits
U64 == 0 .. (TwoW - 1)
I64 == (0 - (TwoW \div 2)) .. ((TwoW \div 2) - 1)

\* `x as u64`: the low Bits bits, read unsigned.
AsU64(x) == x % TwoW

\* `x as i64`: the low Bits bits, read as two's complement.
AsI64(x) ==
    LET m == x % TwoW
    IN  IF m >= TwoW \div 2 THEN m - TwoW ELSE m

\* `a + b` on i64.  In range it is the sum.  Out of range the build decides:
\* an unchecked build wraps, an overflow-checked build panics.
AddI64(a, b) ==
    IF (a + b) \in I64
    THEN {[panic |-> FALSE, v |-> a + b]}
    ELSE {[panic |-> FALSE, v |-> AsI64(a + b)], [panic |-> TRUE, v |-> 0]}

Min(a, b) == IF a <= b THEN a ELSE b

\* ------------------------------------------------------------------ bytes

Byte == 0 .. MaxByte

SeqsUpTo(n) == UNION {[1 .. k -> Byte] : k \in 0 .. n}

\* s[n..] and s[..n] of a Rust slice (0-based n).
From(s, n) == SubSeq(s, n + 1, Len(s))
UpTo(s, n) == SubSeq(s, 1, n)

\* repeat(0).take(k)
Zeros(k) == [i \in 1 .. k |-> 0]

\* slice::bytes::copy_memory(dst, src): src over the front of dst.
copy_memory(dst, src) == src \o From(dst, Len(src))

\* ---------------------------------------------------------------- results

Ok(v) == [ok |-> TRUE, val |-> v, err |-> "none"]
Err(k) == [ok |-> FALSE, val |-> 0, err |-> k]
InvalidInput == Err("InvalidInput")
Panicked == Err("panic")

\* ------------------------------------------------------------ SeekPos

FromStart(n) == [tag |-> "FromStart", n |-> n]
FromEnd(n) == [tag |-> "FromEnd", n |-> n]
FromCur(n) == [tag |-> "FromCur", n |-> n]
NoStyle == [tag |-> "none", n |-> 0]

\* Every SeekPos value of the (scaled) argument types.
SeekPos ==
    {FromStart(n) : n \in U64} \cup {FromEnd(n) : n \in I64}
        \cup {FromCur(n) : n \in I64}

\* ------------------------------------------------------------------ Cursor

Kinds == {"slice", "mut_slice", "vec"}

\* Cursor::new(inner)
new(kind, inner) == [kind |-> kind, pos |-> 0, inner |-> inner]

\* Cursor::set_position(pos)
set_position(c, pos) == [c EXCEPT !.pos = pos]

\* seek! with FromCur computed from the end, as FromEnd is.
seek_cur_from_end(c, style) ==
    LET v == CASE style.tag = "FromStart" -> AsI64(style.n)
               [] style.tag = "FromEnd" -> AsI64(Len(c.inner)) + style.n
               [] style.tag = "FromCur" -> AsI64(Len(c.inner)) + style.n
    IN  {IF v < 0
            THEN [c |-> c, ret |-> InvalidInput]
            ELSE [c |-> [c EXCEPT !.pos = AsU64(v)], ret |-> Ok(AsU64(v))]}

\* seek! rejecting `pos <= 0` instead of `pos < 0`.
seek_rejects_zero(c, style) ==
    LET v == CASE style.tag = "FromStart" -> AsI64(style.n)
               [] style.tag = "FromEnd" -> AsI64(Len(c.inner)) + style.n
               [] style.tag = "FromCur" -> AsI64(c.pos) + style.n
    IN  {IF v <= 0
            THEN [c |-> c, ret |-> InvalidInput]
            ELSE [c |-> [c EXCEPT !.pos = AsU64(v)], ret |-> Ok(AsU64(v))]}

\* seek! storing the target before testing its sign.
seek_stores_before_test(c, style) ==
    LET v == CASE style.tag = "FromStart" -> AsI64(style.n)
               [] style.tag = "FromEnd" -> AsI64(AsI64(Len(c.inner)) + style.n)
               [] style.tag = "FromCur" -> AsI64(AsI64(c.pos) + style.n)
    IN  {[c |-> [c EXCEPT !.pos = AsU64(v)],
          ret |-> IF v < 0 THEN InvalidInput ELSE Ok(AsU64(v))]}

\* seek!: the outcomes of self.seek(style).  Each is the cursor afterwards
\* and the value returned.
seek(c, style) ==
    LET cands ==
            CASE style.tag = "FromStart" ->
                     {[panic |-> FALSE, v |-> AsI64(style.n)]}
              [] style.tag = "FromEnd" ->
                     AddI64(AsI64(Len(c.inner)), style.n)
              [] style.tag = "FromCur" ->
                     AddI64(AsI64(c.pos), style.n)
    IN  {IF p.panic
            THEN [c |-> c, ret |-> Panicked]
            ELSE IF p.v < 0
                    THEN [c |-> c, ret |-> InvalidInput]
                    ELSE [c |-> [c EXCEPT !.pos = AsU64(p.v)],
                          ret |-> Ok(AsU64(p.v))] : p \in cands}

\* impl Read for &[u8]: amt bytes of the slice over the front of buf.
slice_read(slice, buf) ==
    LET amt == Min(Len(buf), Len(slice))
    IN  [out |-> copy_memory(buf, UpTo(slice, amt)),
         rest |-> From(slice, amt),
         ret |-> Ok(amt)]

\* read! without its past-the-end test: slicing inner[pos..] then panics.
read_no_eof_test(c, buf) ==
    IF c.pos > Len(c.inner)
    THEN [c |-> c, out |-> buf, ret |-> Panicked]
    ELSE LET r == slice_read(From(c.inner, c.pos), buf)
         IN  [c |-> [c EXCEPT !.pos = AsU64(c.pos + r.ret.val)],
              out |-> r.out,
              ret |-> Ok(r.ret.val)]

\* read! without `self.pos += n`.
read_no_advance(c, buf) ==
    IF c.pos > Len(c.inner)
    THEN [c |-> c, out |-> buf, ret |-> Ok(0)]
    ELSE LET r == slice_read(From(c.inner, c.pos), buf)
         IN  [c |-> c, out |-> r.out, ret |-> Ok(r.ret.val)]

\* read!: self.read(buf); `out` is the caller's buffer afterwards.
read(c, buf) ==
    IF c.pos > Len(c.inner)
    THEN [c |-> c, out |-> buf, ret |-> Ok(0)]
    ELSE LET r == slice_read(From(c.inner, c.pos), buf)
         IN  [c |-> [c EXCEPT !.pos = AsU64(c.pos + r.ret.val)],
              out |-> r.out,
              ret |-> Ok(r.ret.val)]

\* fill_buf returning the whole storage, whatever the position.
fill_buf_from_start(c) == c.inner

\* buffer!: fill_buf and consume.
fill_buf(c) == IF c.pos < Len(c.inner) THEN From(c.inner, c.pos) ELSE <<>>
consume(c, amt) == [c EXCEPT !.pos = AsU64(c.pos + amt)]

\* impl Write for &mut [u8]: amt bytes of data over the front of the slice;
\* `dst` is the whole slice afterwards, `rest` what the reference now covers.
slice_write(slice, data) ==
    LET amt == Min(Len(data), Len(slice))
        dst == copy_memory(slice, UpTo(data, amt))
    IN  [dst |-> dst, rest |-> From(dst, amt), ret |-> Ok(amt)]

\* Cursor<&mut [u8]>::write reporting a full slice as an error.
mut_slice_write_full_is_error(c, data) ==
    IF c.pos >= Len(c.inner)
    THEN [c |-> c, ret |-> Err("EndOfFile")]
    ELSE LET w == slice_write(From(c.inner, c.pos), data)
             amt == w.ret.val
         IN  [c |-> [c EXCEPT !.inner = UpTo(c.inner, c.pos) \o w.dst,
                              !.pos = AsU64(c.pos + amt)],
              ret |-> Ok(amt)]

\* impl Write for Cursor<&mut [u8]>
mut_slice_write(c, data) ==
    IF c.pos >= Len(c.inner)
    THEN [c |-> c, ret |-> Ok(0)]
    ELSE LET w == slice_write(From(c.inner, c.pos), data)
             amt == w.ret.val
         IN  [c |-> [c EXCEPT !.inner = UpTo(c.inner, c.pos) \o w.dst,
                              !.pos = AsU64(c.pos + amt)],
              ret |-> Ok(amt)]

\* The gap filled with a non-zero byte.
vec_fill_nonzero(inner, pos) ==
    LET difference == AsI64(pos) - AsI64(Len(inner))
    IN  IF difference > 0
        THEN inner \o [i \in 1 .. difference |-> MaxByte]
        ELSE inner

\* impl Write for Cursor<Vec<u8>>, the else branch's first half: "make sure
\* the internal buffer is as least as big as where we currently are".
vec_fill(inner, pos) ==
    LET difference == AsI64(pos) - AsI64(Len(inner))
    IN  IF difference > 0 THEN inner \o Zeros(difference) ELSE inner

\* The second half cutting the buffer off where the written bytes end.
vec_overlay_truncates(grown, pos, buf) == UpTo(grown, pos) \o buf

\* ... and its second half: `left` overwrites what is there from pos on,
\* `right` is appended on the end.
vec_overlay(grown, pos, buf) ==
    LET len == Len(grown)
        cap == len - pos
        left == IF cap <= Len(buf) THEN UpTo(buf, cap) ELSE buf
        right == IF cap <= Len(buf) THEN From(buf, cap) ELSE <<>>
        over ==
            IF Len(left) > 0
            THEN UpTo(grown, pos) \o copy_memory(From(grown, pos), left)
            ELSE grown
    IN  IF Len(right) > 0 THEN over \o right ELSE over

\* The cursor and result when Cursor<Vec<u8>>::write reaches its end with
\* the buffer holding v: set_position(pos + buf.len()); Ok(buf.len()).
vec_done(c, v, buf) ==
    [c |-> [c EXCEPT !.inner = v, !.pos = AsU64(c.pos + Len(buf))],
     ret |-> Ok(Len(buf))]

\* Cursor<Vec<u8>>::write pushing at the front of the buffer.
vec_write_prepends(c, buf) ==
    IF c.pos = Len(c.inner)
    THEN {vec_done(c, buf \o c.inner, buf)}
    ELSE {vec_done(c, vec_overlay(vec_fill(c.inner, c.pos), c.pos, buf), buf)}

\* Cursor<Vec<u8>>::write that only overwrites: nothing is appended, and the
\* count is what fitted, as on a fixed slice.
vec_write_no_growth(c, buf) ==
    IF c.pos = Len(c.inner)
    THEN {vec_done(c, c.inner \o buf, buf)}
    ELSE LET grown == vec_fill(c.inner, c.pos)
             n == Min(Len(buf), Len(grown) - c.pos)
         IN  {[c |-> [c EXCEPT !.inner = vec_overlay(grown, c.pos, UpTo(buf, n)),
                               !.pos = AsU64(c.pos + n)],
               ret |-> Ok(n)]}

\* Cursor<Vec<u8>>::write returning at once when buf is empty.
vec_write_skips_empty(c, buf) ==
    IF Len(buf) = 0
    THEN {[c |-> c, ret |-> Ok(0)]}
    ELSE IF c.pos = Len(c.inner)
    THEN {vec_done(c, c.inner \o buf, buf)}
    ELSE {vec_done(c, vec_overlay(vec_fill(c.inner, c.pos), c.pos, buf), buf)}

\* impl Write for Cursor<Vec<u8>>: the outcomes of self.write(buf).
\* When `pos as i64` is negative nothing is filled and pos stays beyond len:
\* `len - (pos as usize)` then underflows.  An overflow-checked build panics
\* there; an unchecked one wraps to a cap above buf.len(), so left = buf and
\* right = [], and slicing the buffer at [pos..] panics unless left is empty.
vec_write(c, buf) ==
    LET pos == c.pos
        len == Len(c.inner)
    IN  IF pos = len
        THEN {vec_done(c, c.inner \o buf, buf)}
        ELSE LET grown == vec_fill(c.inner, pos)
             IN  IF pos <= Len(grown)
                 THEN {vec_done(c, vec_overlay(grown, pos, buf), buf)}
                 ELSE {[c |-> c, ret |-> Panicked]}
                          \cup (IF Len(buf) = 0
                                THEN {vec_done(c, grown, buf)}
                                ELSE {})

\* self.write(data) on the storage kinds that implement Write.
write(c, data) ==
    IF c.kind = "vec" THEN vec_write(c, data) ELSE {mut_slice_write(c, data)}

\* ---------------------------------------------------------------- adaptors

\* io::repeat(byte)
repeat(byte) == [kind |-> "repeat", byte |-> byte]

\* impl Read for Repeat: every slot of buf is set to the byte.
repeat_read(r, buf) ==
    [out |-> [i \in 1 .. Len(buf) |-> r.byte], ret |-> Ok(Len(buf))]

\* Any other implementor of Read: a finite stream of bytes, of which a read
\* may return fewer than asked; a flaky one may fail any call.
source(data, flaky) == [kind |-> "source", data |-> data, flaky |-> flaky]

SourceError == Err("SourceError")

\* Read::read of such a source: Ok(n) with 0 <= n <= buf.len(), n = 0 only at
\* end of stream or for an empty buf; an error reads no bytes.
source_read(s, buf) ==
    LET most == Min(Len(buf), Len(s.data))
        counts == IF most = 0 THEN {0} ELSE 1 .. most
    IN  {[r |-> [s EXCEPT !.data = From(s.data, n)],
          out |-> copy_memory(buf, UpTo(s.data, n)),
          ret |-> Ok(n)] : n \in counts}
            \cup (IF s.flaky
                  THEN {[r |-> s, out |-> buf, ret |-> SourceError]}
                  ELSE {})

\* self.read(buf) on a reader of either kind: the outcomes it may have.
reader_read(r, buf) ==
    IF r.kind = "repeat"
    THEN LET x == repeat_read(r, buf)
         IN  {[r |-> r, out |-> x.out, ret |-> x.ret]}
    ELSE source_read(r, buf)

\* ReadExt::take(self, limit)
take_new(inner, limit) == [inner |-> inner, limit |-> limit]

\* Take::read with the whole of buf handed to the inner reader.
take_read_unbounded(t, buf) ==
    {[t |-> [inner |-> r.r, limit |-> AsU64(t.limit - r.ret.val)],
      out |-> r.out,
      ret |-> r.ret, inner_ret |-> r.ret, asked |-> Len(buf)]
        : r \in reader_read(t.inner, buf)}

\* Take::read that hands over the whole of buf while any quota is left.
take_read_asks_whole_buffer(t, buf) ==
    LET max == IF t.limit > 0 THEN Len(buf) ELSE 0
    IN  {[t |-> [inner |-> r.r,
                 limit |-> IF r.ret.ok /\ r.ret.val < t.limit
                           THEN t.limit - r.ret.val ELSE 0],
          out |-> r.out \o From(buf, max),
          ret |-> r.ret, inner_ret |-> r.ret, asked |-> max]
             : r \in reader_read(t.inner, UpTo(buf, max))}

\* Take::read with the limit charged before the inner read is tried.
take_read_charges_first(t, buf) ==
    LET max == Min(AsU64(Len(buf)), t.limit)
    IN  {[t |-> [inner |-> r.r, limit |-> AsU64(t.limit - max)],
          out |-> r.out \o From(buf, max),
          ret |-> r.ret, inner_ret |-> r.ret, asked |-> max]
             : r \in reader_read(t.inner, UpTo(buf, max))}

\* impl Read for Take: the inner reader is handed buf[..max]; try! returns
\* its error before the limit is touched.  inner_ret is what the inner
\* reader returned and asked the length of the slice it was handed.
take_read(t, buf) ==
    LET max == Min(AsU64(Len(buf)), t.limit)
    IN  {IF r.ret.ok
         THEN [t |-> [inner |-> r.r, limit |-> AsU64(t.limit - r.ret.val)],
               out |-> r.out \o From(buf, max),
               ret |-> Ok(r.ret.val), inner_ret |-> r.ret, asked |-> max]
         ELSE [t |-> [t EXCEPT !.inner = r.r], out |-> buf, ret |-> r.ret,
               inner_ret |-> r.ret, asked |-> max]
            : r \in reader_read(t.inner, UpTo(buf, max))}

\* ReadExt::chain(self, next)
chain_new(first, second) ==
    [first |-> first, second |-> second, done_first |-> FALSE]

\* self.second.read(buf), the last line of Chain::read; calls lists the
\* readers invoked, first_ret is what the first one returned, if invoked,
\* and second_ret what the second one returned.
chain_second(c, buf, calls, first_ret) ==
    {[c |-> [c EXCEPT !.second = r.r], out |-> r.out, ret |-> r.ret,
      calls |-> Append(calls, "second"), first_ret |-> first_ret,
      second_ret |-> r.ret]
        : r \in reader_read(c.second, buf)}

\* Chain::read that does not look at done_first.
chain_read_retries_first(c, buf) ==
    UNION {IF ~r.ret.ok \/ r.ret.val > 0
           THEN {[c |-> [c EXCEPT !.first = r.r], out |-> r.out,
                  ret |-> r.ret, calls |-> <<"first">>, first_ret |-> r.ret,
                  second_ret |-> Ok(0)]}
           ELSE chain_second([c EXCEPT !.first = r.r, !.done_first = TRUE],
                             r.out, <<"first">>, r.ret)
              : r \in reader_read(c.first, buf)}

\* Chain::read that returns the first reader's 0 and leaves the second
\* reader to the next call.
chain_read_stops_at_boundary(c, buf) ==
    IF ~c.done_first
    THEN {[c |-> [c EXCEPT !.first = r.r,
                           !.done_first = r.ret.ok /\ r.ret.val = 0],
           out |-> r.out, ret |-> r.ret, calls |-> <<"first">>,
           first_ret |-> r.ret, second_ret |-> Ok(0)]
             : r \in reader_read(c.first, buf)}
    ELSE chain_second(c, buf, <<>>, Ok(0))

\* Chain::read that takes an error of the first reader as its end.
chain_read_switches_on_error(c, buf) ==
    IF ~c.done_first
    THEN {[c |-> [c EXCEPT !.first = r.r,
                           !.done_first = ~r.ret.ok \/ r.ret.val = 0],
           out |-> r.out, ret |-> r.ret, calls |-> <<"first">>,
           first_ret |-> r.ret, second_ret |-> Ok(0)]
             : r \in {x \in reader_read(c.first, buf) :
                          ~x.ret.ok \/ x.ret.val > 0}}
             \cup UNION {chain_second([c EXCEPT !.first = r.r,
                                                !.done_first = TRUE],
                                      r.out, <<"first">>, r.ret)
                            : r \in {x \in reader_read(c.first, buf) :
                                         x.ret = Ok(0)}}
    ELSE chain_second(c, buf, <<>>, Ok(0))

\* impl Read for Chain
chain_read(c, buf) ==
    IF ~c.done_first
    THEN UNION {IF ~r.ret.ok \/ r.ret.val > 0
                THEN {[c |-> [c EXCEPT !.first = r.r], out |-> r.out,
                       ret |-> r.ret, calls |-> <<"first">>,
                       first_ret |-> r.ret, second_ret |-> Ok(0)]}
                ELSE chain_second([c EXCEPT !.first = r.r,
                                            !.done_first = TRUE],
                                  r.out, <<"first">>, r.ret)
                   : r \in reader_read(c.first, buf)}
    ELSE chain_second(c, buf, <<>>, Ok(0))

\* Any implementor of Write other than the Cursors: it keeps what it has
\* accepted, has room for so many more bytes, may accept fewer bytes than
\* offered, and a flaky one may fail any write or flush with its own error.
writer(room, flaky, err) ==
    [kind |-> "writer", got |-> <<>>, room |-> room, flaky |-> flaky,
     err |-> err]

\* Write::write of such a sink: Ok(n) with 0 <= n <= buf.len(); an error
\* writes no bytes.
writer_write(w, buf) ==
    LET most == Min(Len(buf), w.room)
        counts == IF most = 0 THEN {0} ELSE 1 .. most
    IN  {[w |-> [w EXCEPT !.got = @ \o UpTo(buf, n), !.room = @ - n],
          ret |-> Ok(n)] : n \in counts}
            \cup (IF w.flaky THEN {[w |-> w, ret |-> Err(w.err)]} ELSE {})

\* self.write(buf) on a sink of any kind: the outcomes it may have.
sink_write(w, buf) ==
    IF w.kind = "writer"
    THEN writer_write(w, buf)
    ELSE {[w |-> r.c, ret |-> r.ret] : r \in write(w, buf)}

\* self.flush(): the Cursors have the default flush, which is Ok(()).
sink_flush(w) ==
    IF w.kind = "writer" /\ w.flaky THEN {Ok(0), Err(w.err)} ELSE {Ok(0)}

EndOfFile == Err("EndOfFile")

\* write_all as a single write, taken to have written everything.
write_all_once(w, buf) ==
    {[w |-> r.w, ret |-> IF r.ret.ok THEN Ok(0) ELSE r.ret,
      log |-> <<[arg |-> buf, ret |-> r.ret]>>] : r \in sink_write(w, buf)}

\* write_all that calls write again, up to `tries` more times, after a write
\* that returned 0.
RECURSIVE write_all_retry(_, _, _)
write_all_retry(w, buf, tries) ==
    IF Len(buf) = 0
    THEN {[w |-> w, ret |-> Ok(0), log |-> <<>>]}
    ELSE UNION {
        LET call == [arg |-> buf, ret |-> r.ret]
        IN  IF ~r.ret.ok
            THEN {[w |-> r.w, ret |-> r.ret, log |-> <<call>>]}
            ELSE IF r.ret.val = 0 /\ tries = 0
            THEN {[w |-> r.w, ret |-> EndOfFile, log |-> <<call>>]}
            ELSE {[x EXCEPT !.log = <<call>> \o @]
                     : x \in write_all_retry(r.w, From(buf, r.ret.val),
                                 IF r.ret.val = 0 THEN tries - 1 ELSE tries)}
        : r \in sink_write(w, buf)}

write_all_retries_zero(w, buf) == write_all_retry(w, buf, 1)

\* WriteExt::write_all: the sink after it, what it returns (Ok(()) is Ok(0))
\* and the log of the write calls it made.
RECURSIVE write_all(_, _)
write_all(w, buf) ==
    IF Len(buf) = 0
    THEN {[w |-> w, ret |-> Ok(0), log |-> <<>>]}
    ELSE UNION {
        LET call == [arg |-> buf, ret |-> r.ret]
        IN  IF ~r.ret.ok
            THEN {[w |-> r.w, ret |-> r.ret, log |-> <<call>>]}
            ELSE IF r.ret.val = 0
            THEN {[w |-> r.w, ret |-> EndOfFile, log |-> <<call>>]}
            ELSE {[x EXCEPT !.log = <<call>> \o @]
                     : x \in write_all(r.w, From(buf, r.ret.val))}
        : r \in sink_write(w, buf)}

\* write_all when it is not reached.
NoWriteAll == [ret |-> Ok(0), log |-> <<>>]

\* ReadExt::tee(self, out)
tee_new(reader, out) == [reader |-> reader, writer |-> out]

\* Tee::read that leaves the sink alone.
tee_read_skips_sink(t, buf) ==
    {[t |-> [t EXCEPT !.reader = r.r], out |-> r.out, ret |-> r.ret,
      read_ret |-> r.ret, wa |-> NoWriteAll] : r \in reader_read(t.reader, buf)}

\* Tee::read that returns the count read whatever write_all returns.
tee_read_reports_count(t, buf) ==
    UNION {IF ~r.ret.ok
           THEN {[t |-> [t EXCEPT !.reader = r.r], out |-> r.out,
                  ret |-> r.ret, read_ret |-> r.ret, wa |-> NoWriteAll]}
           ELSE {[t |-> [reader |-> r.r, writer |-> x.w], out |-> r.out,
                  ret |-> r.ret, read_ret |-> r.ret,
                  wa |-> [ret |-> x.ret, log |-> x.log]]
                    : x \in write_all(t.writer, UpTo(r.out, r.ret.val))}
              : r \in reader_read(t.reader, buf)}

\* impl Read for Tee; read_ret is what the reader returned and wa what
\* write_all did.
tee_read(t, buf) ==
    UNION {IF ~r.ret.ok
           THEN {[t |-> [t EXCEPT !.reader = r.r], out |-> r.out,
                  ret |-> r.ret, read_ret |-> r.ret, wa |-> NoWriteAll]}
           ELSE {[t |-> [reader |-> r.r, writer |-> x.w], out |-> r.out,
                  ret |-> IF x.ret.ok THEN r.ret ELSE x.ret,
                  read_ret |-> r.ret,
                  wa |-> [ret |-> x.ret, log |-> x.log]]
                    : x \in write_all(t.writer, UpTo(r.out, r.ret.val))}
              : r \in reader_read(t.reader, buf)}

\* WriteExt::broadcast(self, other)
broadcast_new(first, second) == [first |-> first, second |-> second]

\* impl Write for Broadcast, write; first_ret is what the first sink
\* returned and wa what write_all on the second did.
broadcast_write(b, data) ==
    UNION {IF ~r.ret.ok
           THEN {[b |-> [b EXCEPT !.first = r.w], ret |-> r.ret,
                  first_ret |-> r.ret, wa |-> NoWriteAll]}
           ELSE {[b |-> [first |-> r.w, second |-> x.w],
                  ret |-> IF x.ret.ok THEN r.ret ELSE x.ret,
                  first_ret |-> r.ret,
                  wa |-> [ret |-> x.ret, log |-> x.log]]
                    : x \in write_all(b.second, UpTo(data, r.ret.val))}
              : r \in sink_write(b.first, data)}

\* Result::and: the second result if the first is Ok, else the first.
and(res1, res2) == IF res1.ok THEN res2 ELSE res1

\* Broadcast::flush with the second sink flushed first.
broadcast_flush_second_first(b) ==
    {[b |-> b, calls |-> <<"second", "first">>, first_ret |-> f1,
      second_ret |-> f2, ret |-> and(f2, f1)]
        : f1 \in sink_flush(b.first), f2 \in sink_flush(b.second)}

\* Broadcast::flush that leaves the second sink alone when the flush of the
\* first has failed.
broadcast_flush_stops_at_error(b) ==
    {[b |-> b, calls |-> <<"first">>, first_ret |-> f1,
      second_ret |-> Ok(0), ret |-> f1]
        : f1 \in {f \in sink_flush(b.first) : ~f.ok}}
        \cup {[b |-> b, calls |-> <<"first", "second">>, first_ret |-> f1,
                second_ret |-> f2, ret |-> f2]
                  : f1 \in {f \in sink_flush(b.first) : f.ok},
                    f2 \in sink_flush(b.second)}

\* impl Write for Broadcast, flush: the receiver self.first.flush() is
\* evaluated, then the argument self.second.flush(), then `and`.
broadcast_flush(b) ==
    {[b |-> b, calls |-> <<"first", "second">>, first_ret |-> f1,
      second_ret |-> f2, ret |-> and(f1, f2)]
        : f1 \in sink_flush(b.first), f2 \in sink_flush(b.second)}

\* One call made by copy: r.read, with the bytes it read, or w.write_all,
\* with the bytes it was given, and what the call returned.
Event(call, arg, ret) == [call |-> call, arg |-> arg, ret |-> ret]

RECURSIVE copy_from(_, _, _, _)

\* The loop of copy with the size of the buffer added to `written`.
copy_from_counts_buffer(r, w, written, log) ==
    UNION {
        LET len == x.ret.val
            e1 == Event("read", UpTo(x.out, len), x.ret)
        IN  IF ~x.ret.ok
            THEN {[r |-> x.r, w |-> w, ret |-> x.ret, log |-> Append(log, e1)]}
            ELSE IF len = 0
            THEN {[r |-> x.r, w |-> w, ret |-> Ok(written),
                   log |-> Append(log, e1)]}
            ELSE UNION {
                LET e2 == Event("write_all", UpTo(x.out, len), y.ret)
                IN  IF ~y.ret.ok
                    THEN {[r |-> x.r, w |-> y.w, ret |-> y.ret,
                           log |-> log \o <<e1, e2>>]}
                    ELSE copy_from(x.r, y.w, AsU64(written + Len(x.out)),
                                   log \o <<e1, e2>>)
                : y \in write_all(w, UpTo(x.out, len))}
        : x \in reader_read(r, Zeros(MaxBuf))}

\* The loop of copy with the result of write_all dropped.
copy_from_ignores_write_error(r, w, written, log) ==
    UNION {
        LET len == x.ret.val
            e1 == Event("read", UpTo(x.out, len), x.ret)
        IN  IF ~x.ret.ok
            THEN {[r |-> x.r, w |-> w, ret |-> x.ret, log |-> Append(log, e1)]}
            ELSE IF len = 0
            THEN {[r |-> x.r, w |-> w, ret |-> Ok(written),
                   log |-> Append(log, e1)]}
            ELSE UNION {
                copy_from(x.r, y.w, AsU64(written + len),
                          log \o <<e1, Event("write_all", UpTo(x.out, len),
                                             y.ret)>>)
                : y \in write_all(w, UpTo(x.out, len))}
        : x \in reader_read(r, Zeros(MaxBuf))}

\* The loop of copy with the reader put back where it was before the read
\* whose bytes write_all failed to write.
copy_from_unreads_on_write_error(r, w, written, log) ==
    UNION {
        LET len == x.ret.val
            e1 == Event("read", UpTo(x.out, len), x.ret)
        IN  IF ~x.ret.ok
            THEN {[r |-> x.r, w |-> w, ret |-> x.ret, log |-> Append(log, e1)]}
            ELSE IF len = 0
            THEN {[r |-> x.r, w |-> w, ret |-> Ok(written),
                   log |-> Append(log, e1)]}
            ELSE UNION {
                LET e2 == Event("write_all", UpTo(x.out, len), y.ret)
                IN  IF ~y.ret.ok
                    THEN {[r |-> r, w |-> y.w, ret |-> y.ret,
                           log |-> log \o <<e1, e2>>]}
                    ELSE copy_from(x.r, y.w, AsU64(written + len),
                                   log \o <<e1, e2>>)
                : y \in write_all(w, UpTo(x.out, len))}
        : x \in reader_read(r, Zeros(MaxBuf))}

\* The loop of util::copy from `written` bytes on; buf is [0; 64 * 1024],
\* here [0; MaxBuf].  log is the calls made so far.
copy_from(r, w, written, log) ==
    UNION {
        LET len == x.ret.val
            e1 == Event("read", UpTo(x.out, len), x.ret)
        IN  IF ~x.ret.ok
            THEN {[r |-> x.r, w |-> w, ret |-> x.ret, log |-> Append(log, e1)]}
            ELSE IF len = 0
            THEN {[r |-> x.r, w |-> w, ret |-> Ok(written),
                   log |-> Append(log, e1)]}
            ELSE UNION {
                LET e2 == Event("write_all", UpTo(x.out, len), y.ret)
                IN  IF ~y.ret.ok
                    THEN {[r |-> x.r, w |-> y.w, ret |-> y.ret,
                           log |-> log \o <<e1, e2>>]}
                    ELSE copy_from(x.r, y.w, AsU64(written + len),
                                   log \o <<e1, e2>>)
                : y \in write_all(w, UpTo(x.out, len))}
        : x \in reader_read(r, Zeros(MaxBuf))}

\* util::copy(r, w)
copy(r, w) == copy_from(r, w, 0, <<>>)

\* A Vec<u8>: its bytes and its capacity.
vec(inner, cap) == [inner |-> inner, cap |-> cap]

RECURSIVE read_to_end_from(_, _, _, _)

\* The loop of read_to_end with buf emptied when a read fails.
read_to_end_from_clears_on_error(r, buf, log, lens) ==
    LET cur_len == Len(buf.inner)
        cap == IF buf.cap = cur_len THEN cur_len + MaxBuf ELSE buf.cap
    IN  UNION {
            LET n == x.ret.val
                e == Event("read", UpTo(x.out, n), x.ret)
            IN  IF ~x.ret.ok
                THEN {[r |-> x.r, buf |-> vec(<<>>, cap), ret |-> x.ret,
                       log |-> Append(log, e),
                       lens |-> Append(lens, cap - cur_len)]}
                ELSE IF n = 0
                THEN {[r |-> x.r, buf |-> vec(buf.inner, cap), ret |-> Ok(0),
                       log |-> Append(log, e),
                       lens |-> Append(lens, cap - cur_len)]}
                ELSE read_to_end_from(x.r,
                                      vec(buf.inner \o UpTo(x.out, n), cap),
                                      Append(log, e),
                                      Append(lens, cap - cur_len))
            : x \in reader_read(r, Zeros(cap - cur_len))}

\* The loop of read_to_end without the reserve: a full buf gives the reader
\* an empty slice.
read_to_end_from_no_reserve(r, buf, log, lens) ==
    LET cur_len == Len(buf.inner)
        cap == buf.cap
    IN  UNION {
            LET n == x.ret.val
                e == Event("read", UpTo(x.out, n), x.ret)
            IN  IF ~x.ret.ok
                THEN {[r |-> x.r, buf |-> vec(buf.inner, cap), ret |-> x.ret,
                       log |-> Append(log, e),
                       lens |-> Append(lens, cap - cur_len)]}
                ELSE IF n = 0
                THEN {[r |-> x.r, buf |-> vec(buf.inner, cap), ret |-> Ok(0),
                       log |-> Append(log, e),
                       lens |-> Append(lens, cap - cur_len)]}
                ELSE read_to_end_from(x.r,
                                      vec(buf.inner \o UpTo(x.out, n), cap),
                                      Append(log, e),
                                      Append(lens, cap - cur_len))
            : x \in reader_read(r, Zeros(cap - cur_len))}

\* The loop of ReadExt::read_to_end: reserve(DEFAULT_BUF_SIZE), here MaxBuf,
\* when buf is full; read into the spare capacity; set_len(cur_len + n).
\* log is the reads made so far and lens the lengths of the slices they
\* were given.
read_to_end_from(r, buf, log, lens) ==
    LET cur_len == Len(buf.inner)
        cap == IF buf.cap = cur_len THEN cur_len + MaxBuf ELSE buf.cap
    IN  UNION {
            LET n == x.ret.val
                e == Event("read", UpTo(x.out, n), x.ret)
            IN  IF ~x.ret.ok
                THEN {[r |-> x.r, buf |-> vec(buf.inner, cap), ret |-> x.ret,
                       log |-> Append(log, e),
                       lens |-> Append(lens, cap - cur_len)]}
                ELSE IF n = 0
                THEN {[r |-> x.r, buf |-> vec(buf.inner, cap), ret |-> Ok(0),
                       log |-> Append(log, e),
                       lens |-> Append(lens, cap - cur_len)]}
                ELSE read_to_end_from(x.r,
                                      vec(buf.inner \o UpTo(x.out, n), cap),
                                      Append(log, e),
                                      Append(lens, cap - cur_len))
            : x \in reader_read(r, Zeros(cap - cur_len))}

\* ReadExt::read_to_end(&mut self, buf)
read_to_end(r, buf) == read_to_end_from(r, buf, <<>>, <<>>)

\* What Bytes::next yields.
None == [some |-> FALSE, ok |-> TRUE, val |-> 0, err |-> "none"]
Some(r) == [some |-> TRUE, ok |-> r.ok, val |-> r.val, err |-> r.err]

\* Bytes::next ending the sequence when the read fails.
bytes_next_error_ends(t) ==
    {[t |-> r.t,
      n |-> IF r.ret.ok THEN r.ret.val ELSE 0,
      item |-> IF r.ret.ok /\ r.ret.val > 0 THEN Some(Ok(r.out[1])) ELSE None,
      read_ret |-> r.ret, asked |-> r.asked] : r \in take_read(t, <<0>>)}

\* impl Iterator for Bytes, over a Take: one read into a one-byte buffer;
\* read_ret is what the read returned.
bytes_next(t) ==
    {[t |-> r.t,
      n |-> IF r.ret.ok THEN r.ret.val ELSE 0,
      item |-> IF r.ret.ok
               THEN IF r.ret.val = 0 THEN None ELSE Some(Ok(r.out[1]))
               ELSE Some(r.ret),
      read_ret |-> r.ret, asked |-> r.asked] : r \in take_read(t, <<0>>)}

\* ------------------------------------------------------------------- Chars

\* ReadExt::chars(self)
chars_new(inner) == [inner |-> inner]

\* What Chars::next yields: None, Some(Ok(c)), Some(Err(NotUtf8)),
\* Some(Err(Other(e))).
NoChar ==
    [some |-> FALSE, ok |-> TRUE, val |-> 0, kind |-> "none", err |-> "none"]
SomeChar(c) ==
    [some |-> TRUE, ok |-> TRUE, val |-> c, kind |-> "none", err |-> "none"]
NotUtf8 ==
    [some |-> TRUE, ok |-> FALSE, val |-> 0, kind |-> "NotUtf8",
     err |-> "none"]
Other(e) ==
    [some |-> TRUE, ok |-> FALSE, val |-> 0, kind |-> "Other", err |-> e.err]

\* core::str::utf8_char_width: the length of the sequence a first byte
\* announces, 0 for a byte that begins none.
utf8_char_width(b) ==
    CASE b <= 127 -> 1
      [] b >= 194 /\ b <= 223 -> 2
      [] b >= 224 /\ b <= 239 -> 3
      [] b >= 240 /\ b <= 244 -> 4
      [] OTHER -> 0

\* A continuation byte.
IsCont(b) == b >= 128 /\ b <= 191

\* str::from_utf8(seq).is_ok() for a seq of the width its first byte
\* announces: well-formed, not overlong, no surrogate, at most U+10FFFF.
from_utf8_ok(seq) ==
    CASE Len(seq) = 1 -> seq[1] <= 127
      [] Len(seq) = 2 -> seq[1] >= 194 /\ seq[1] <= 223 /\ IsCont(seq[2])
      [] Len(seq) = 3 ->
             /\ seq[1] >= 224 /\ seq[1] <= 239
             /\ IsCont(seq[2]) /\ IsCont(seq[3])
             /\ seq[1] = 224 => seq[2] >= 160
             /\ seq[1] = 237 => seq[2] <= 159
      [] Len(seq) = 4 ->
             /\ seq[1] >= 240 /\ seq[1] <= 244
             /\ IsCont(seq[2]) /\ IsCont(seq[3]) /\ IsCont(seq[4])
             /\ seq[1] = 240 => seq[2] >= 144
             /\ seq[1] = 244 => seq[2] <= 143
      [] OTHER -> FALSE

\* s.char_at(0) of a valid sequence: the scalar value it encodes.
char_at_0(seq) ==
    CASE Len(seq) = 1 -> seq[1]
      [] Len(seq) = 2 -> (seq[1] - 192) * 64 + (seq[2] - 128)
      [] Len(seq) = 3 ->
             (seq[1] - 224) * 4096 + (seq[2] - 128) * 64 + (seq[3] - 128)
      [] Len(seq) = 4 ->
             (seq[1] - 240) * 262144 + (seq[2] - 128) * 4096
                 + (seq[3] - 128) * 64 + (seq[4] - 128)

\* The while loop of Chars::next with a short read taken as the last one.
chars_fill_one_read(r, buf, start, width, log) ==
    {LET e == Event("read", UpTo(x.out, x.ret.val), x.ret)
         filled == UpTo(buf, start) \o x.out \o From(buf, width)
     IN  IF ~x.ret.ok
         THEN [r |-> x.r, buf |-> buf, status |-> "err", ret |-> x.ret,
               log |-> Append(log, e)]
         ELSE IF x.ret.val = 0
         THEN [r |-> x.r, buf |-> buf, status |-> "eof", ret |-> x.ret,
               log |-> Append(log, e)]
         ELSE [r |-> x.r, buf |-> filled, status |-> "full", ret |-> x.ret,
               log |-> Append(log, e)]
        : x \in reader_read(r, SubSeq(buf, start + 1, width))}

\* The while loop of Chars::next: reads into buf[start..width] until it is
\* full, a read returns 0 or a read fails.
RECURSIVE chars_fill(_, _, _, _, _)
chars_fill(r, buf, start, width, log) ==
    UNION {
        LET e == Event("read", UpTo(x.out, x.ret.val), x.ret)
            filled == UpTo(buf, start) \o x.out \o From(buf, width)
        IN  IF ~x.ret.ok
            THEN {[r |-> x.r, buf |-> buf, status |-> "err", ret |-> x.ret,
                   log |-> Append(log, e)]}
            ELSE IF x.ret.val = 0
            THEN {[r |-> x.r, buf |-> buf, status |-> "eof", ret |-> x.ret,
                   log |-> Append(log, e)]}
            ELSE IF x.ret.val = width - start
            THEN {[r |-> x.r, buf |-> filled, status |-> "full",
                   ret |-> x.ret, log |-> Append(log, e)]}
            ELSE chars_fill(x.r, filled, start + x.ret.val, width,
                            Append(log, e))
        : x \in reader_read(r, SubSeq(buf, start + 1, width))}

\* Chars::next with the end of the stream inside a sequence taken as the end
\* of the characters.
chars_next_eof_is_none(c) ==
    UNION {
        LET e == Event("read", UpTo(x.out, x.ret.val), x.ret)
            first_byte == x.out[1]
            width == utf8_char_width(first_byte)
        IN  IF ~x.ret.ok
            THEN {[c |-> chars_new(x.r), item |-> Other(x.ret),
                   seq |-> <<>>, log |-> <<e>>]}
            ELSE IF x.ret.val = 0
            THEN {[c |-> chars_new(x.r), item |-> NoChar, seq |-> <<>>,
                   log |-> <<e>>]}
            ELSE IF width = 1
            THEN {[c |-> chars_new(x.r), item |-> SomeChar(first_byte),
                   seq |-> <<first_byte>>, log |-> <<e>>]}
            ELSE IF width = 0
            THEN {[c |-> chars_new(x.r), item |-> NotUtf8,
                   seq |-> <<first_byte>>, log |-> <<e>>]}
            ELSE {[c |-> chars_new(f.r),
                   item |-> CASE f.status = "err" -> Other(f.ret)
                              [] f.status = "eof" -> NoChar
                              [] OTHER ->
                                   IF from_utf8_ok(UpTo(f.buf, width))
                                   THEN SomeChar(char_at_0(UpTo(f.buf, width)))
                                   ELSE NotUtf8,
                   seq |-> UpTo(f.buf, width),
                   log |-> f.log]
                     : f \in chars_fill(x.r, <<first_byte, 0, 0, 0>>, 1,
                                        width, <<e>>)}
        : x \in reader_read(c.inner, <<0>>)}

\* Chars::next leaving in the source the bytes after the first of a
\* sequence that is not valid.
chars_next_keeps_invalid_tail(c) ==
    UNION {
        LET e == Event("read", UpTo(x.out, x.ret.val), x.ret)
            first_byte == x.out[1]
            width == utf8_char_width(first_byte)
        IN  IF ~x.ret.ok
            THEN {[c |-> chars_new(x.r), item |-> Other(x.ret),
                   seq |-> <<>>, log |-> <<e>>]}
            ELSE IF x.ret.val = 0
            THEN {[c |-> chars_new(x.r), item |-> NoChar, seq |-> <<>>,
                   log |-> <<e>>]}
            ELSE IF width = 1
            THEN {[c |-> chars_new(x.r), item |-> SomeChar(first_byte),
                   seq |-> <<first_byte>>, log |-> <<e>>]}
            ELSE IF width = 0
            THEN {[c |-> chars_new(x.r), item |-> NotUtf8,
                   seq |-> <<first_byte>>, log |-> <<e>>]}
            ELSE {IF f.status = "full" /\ ~from_utf8_ok(UpTo(f.buf, width))
                  THEN [c |-> chars_new(x.r), item |-> NotUtf8,
                        seq |-> UpTo(f.buf, width), log |-> f.log]
                  ELSE [c |-> chars_new(f.r),
                        item |-> CASE f.status = "err" -> Other(f.ret)
                                   [] f.status = "eof" -> NotUtf8
                                   [] OTHER ->
                                        SomeChar(char_at_0(UpTo(f.buf, width))),
                        seq |-> UpTo(f.buf, width),
                        log |-> f.log]
                     : f \in chars_fill(x.r, <<first_byte, 0, 0, 0>>, 1,
                                        width, <<e>>)}
        : x \in reader_read(c.inner, <<0>>)}

\* impl Iterator for Chars: the Chars after the call, the item, the bytes
\* of buf[..width] and the reads made.
chars_next(c) ==
    UNION {
        LET e == Event("read", UpTo(x.out, x.ret.val), x.ret)
            first_byte == x.out[1]
            width == utf8_char_width(first_byte)
        IN  IF ~x.ret.ok
            THEN {[c |-> chars_new(x.r), item |-> Other(x.ret),
                   seq |-> <<>>, log |-> <<e>>]}
            ELSE IF x.ret.val = 0
            THEN {[c |-> chars_new(x.r), item |-> NoChar, seq |-> <<>>,
                   log |-> <<e>>]}
            ELSE IF width = 1
            THEN {[c |-> chars_new(x.r), item |-> SomeChar(first_byte),
                   seq |-> <<first_byte>>, log |-> <<e>>]}
            ELSE IF width = 0
            THEN {[c |-> chars_new(x.r), item |-> NotUtf8,
                   seq |-> <<first_byte>>, log |-> <<e>>]}
            ELSE {[c |-> chars_new(f.r),
                   item |-> CASE f.status = "err" -> Other(f.ret)
                              [] f.status = "eof" -> NotUtf8
                              [] OTHER ->
                                   IF from_utf8_ok(UpTo(f.buf, width))
                                   THEN SomeChar(char_at_0(UpTo(f.buf, width)))
                                   ELSE NotUtf8,
                   seq |-> UpTo(f.buf, width),
                   log |-> f.log]
                     : f \in chars_fill(x.r, <<first_byte, 0, 0, 0>>, 1,
                                        width, <<e>>)}
        : x \in reader_read(c.inner, <<0>>)}

\* ------------------------------------------------------------------- state

VARIABLES
    cur,    \* the Cursor: [kind, pos, inner]
    last,   \* the last call: its name, arguments, result and the cursor before
    hist,   \* the calls since new: "new", "reads" (only reads), "writes"
            \* (only writes, to a growable buffer created empty) or "mixed"
    acc     \* the bytes returned by the reads / passed to the writes of hist

VARIABLES
    take,   \* the Take: [inner, limit]
    tk      \* its limit when made, the bytes it has returned, its last call
            \* and what the reader under it was asked for and returned, the
            \* Take before that call, whether a read has failed so far, the
            \* inner reader when the Take was made

VARIABLES
    chain,  \* the Chain: [first, second, done_first]
    ch      \* the bytes of its two readers when made, the bytes it has
            \* returned, whether the second reader has reported end of file
            \* to a non-empty buffer, its last call, what each reader
            \* returned in it, the Chain before it, whether the call before
            \* the last ended with an error of the first reader

VARIABLES
    tee,    \* the Tee: [reader, writer]
    te      \* the bytes of its reader when made, the bytes the reader has
            \* given out, the bytes its reads have returned, its last call

VARIABLES
    bcast,  \* the Broadcast: [first, second]
    bc      \* whether it was made of two equal growable Cursors, its last
            \* call, what the sinks and write_all returned in it, data[..n]
            \* if it was a write that returned Ok(n), the Broadcast before it

VARIABLES
    sink,   \* a sink that write_all is called on
    wa      \* the last write_all: its buffer, result, log and the sink before

VARIABLES
    cp      \* the reader and the writer given to copy, its last call: what it
            \* returned, the calls it made, the reader and writer before it

VARIABLES
    rte     \* the reader and the Vec given to read_to_end, its last call: what
            \* it returned, the reads it made and the lengths of the slices
            \* they were given, the reader and Vec before it

VARIABLES
    chars,  \* the Chars: [inner]
    cs      \* the scalar values its source was encoded from, if it was, the
            \* characters it has yielded, whether every read so far succeeded,
            \* its last call: the item, the bytes assembled, the reads made,
            \* the bytes the source held before it

curVars == <<cur, last, hist, acc>>
takeVars == <<take, tk>>
chainVars == <<chain, ch>>
teeVars == <<tee, te>>
bcastVars == <<bcast, bc>>
sinkVars == <<sink, wa>>
copyVars == <<cp>>
rteVars == <<rte>>
charsVars == <<chars, cs>>
vars ==
    <<cur, last, hist, acc, take, tk, chain, ch, tee, te, bcast, bc, sink,
      wa, cp, rte, chars, cs>>

\* The variables a call on one of the objects leaves alone.
nonCursor ==
    <<takeVars, chainVars, teeVars, bcastVars,
      sinkVars, copyVars, rteVars, charsVars>>
nonTake ==
    <<curVars, chainVars, teeVars, bcastVars,
      sinkVars, copyVars, rteVars, charsVars>>
nonChain ==
    <<curVars, takeVars, teeVars, bcastVars,
      sinkVars, copyVars, rteVars, charsVars>>
nonTee ==
    <<curVars, takeVars, chainVars, bcastVars,
      sinkVars, copyVars, rteVars, charsVars>>
nonBroadcast ==
    <<curVars, takeVars, chainVars, teeVars,
      sinkVars, copyVars, rteVars, charsVars>>
nonSink ==
    <<curVars, takeVars, chainVars, teeVars,
      bcastVars, copyVars, rteVars, charsVars>>
nonCopy ==
    <<curVars, takeVars, chainVars, teeVars,
      bcastVars, sinkVars, rteVars, charsVars>>
nonReadToEnd ==
    <<curVars, takeVars, chainVars, teeVars,
      bcastVars, sinkVars, copyVars, charsVars>>
nonChars ==
    <<curVars, takeVars, chainVars, teeVars,
      bcastVars, sinkVars, copyVars, rteVars>>

Call(op, style, buf, out, ret, old) ==
    [op |-> op, style |-> style, buf |-> buf, out |-> out, ret |-> ret,
     old |-> old]

\* No Cursor / no Take in use.
IdleCursor ==
    /\ cur = new("slice", <<>>)
    /\ last = Call("new", NoStyle, <<>>, <<>>, Ok(0), new("slice", <<>>))
    /\ hist = "new"
    /\ acc = <<>>

IdleTake ==
    /\ take = take_new(repeat(0), 0)
    /\ tk = [n0 |-> 0, total |-> 0, op |-> "new", buf |-> <<>>, out |-> <<>>,
             ret |-> Ok(0), item |-> None, old |-> take_new(repeat(0), 0),
             failed |-> FALSE, inner_ret |-> Ok(0), asked |-> 0,
             inner0 |-> repeat(0)]

IdleChain ==
    /\ chain = chain_new(source(<<>>, FALSE), source(<<>>, FALSE))
    /\ ch = [a0 |-> <<>>, b0 |-> <<>>, got |-> <<>>, eof |-> FALSE,
             op |-> "new", buf |-> <<>>, ret |-> Ok(0), calls |-> <<>>,
             first_ret |-> Ok(0), second_ret |-> Ok(0),
             old |-> chain_new(source(<<>>, FALSE), source(<<>>, FALSE))]

IdleTee ==
    /\ tee = tee_new(source(<<>>, FALSE), writer(0, FALSE, "none"))
    /\ te = [data0 |-> <<>>, seen |-> <<>>, got |-> <<>>, old_got |-> <<>>,
             wfailed |-> FALSE, op |-> "new", buf |-> <<>>, out |-> <<>>,
             ret |-> Ok(0), read_ret |-> Ok(0), wa |-> NoWriteAll,
             old |-> tee_new(source(<<>>, FALSE), writer(0, FALSE, "none"))]

IdleBroadcast ==
    /\ bcast = broadcast_new(writer(0, FALSE, "none"), writer(0, FALSE, "none"))
    /\ bc = [twins |-> FALSE, op |-> "new", sent |-> <<>>, ret |-> Ok(0),
             first_ret |-> Ok(0), second_ret |-> Ok(0), wa_ret |-> Ok(0),
             calls |-> <<>>,
             old |-> broadcast_new(writer(0, FALSE, "none"),
                                   writer(0, FALSE, "none"))]

IdleSink ==
    /\ sink = writer(0, FALSE, "none")
    /\ wa = [op |-> "new", buf |-> <<>>, ret |-> Ok(0), log |-> <<>>,
             old |-> writer(0, FALSE, "none")]

IdleCopy ==
    cp = [op |-> "new", r |-> source(<<>>, FALSE),
          w |-> writer(0, FALSE, "none"), ret |-> Ok(0), log |-> <<>>,
          old |-> [r |-> source(<<>>, FALSE), w |-> writer(0, FALSE, "none")]]

IdleReadToEnd ==
    rte = [op |-> "new", r |-> source(<<>>, FALSE), buf |-> vec(<<>>, 0),
           ret |-> Ok(0), log |-> <<>>, lens |-> <<>>,
           old |-> [r |-> source(<<>>, FALSE), buf |-> vec(<<>>, 0)]]

IdleChars ==
    /\ chars = chars_new(source(<<>>, FALSE))
    /\ cs = [text |-> <<>>, encoded |-> FALSE, got |-> <<>>, clean |-> TRUE,
             op |-> "new", item |-> NoChar, seq |-> <<>>, log |-> <<>>,
             old |-> <<>>, before |-> <<>>]

\* No adaptor in use but the one the specification is about.
IdleButCursor ==
    /\ IdleTake /\ IdleChain /\ IdleTee /\ IdleBroadcast
    /\ IdleSink /\ IdleCopy /\ IdleReadToEnd /\ IdleChars
IdleButTake ==
    /\ IdleCursor /\ IdleChain /\ IdleTee /\ IdleBroadcast
    /\ IdleSink /\ IdleCopy /\ IdleReadToEnd /\ IdleChars
IdleButChain ==
    /\ IdleCursor /\ IdleTake /\ IdleTee /\ IdleBroadcast
    /\ IdleSink /\ IdleCopy /\ IdleReadToEnd /\ IdleChars
IdleButTee ==
    /\ IdleCursor /\ IdleTake /\ IdleChain /\ IdleBroadcast
    /\ IdleSink /\ IdleCopy /\ IdleReadToEnd /\ IdleChars
IdleButBroadcast ==
    /\ IdleCursor /\ IdleTake /\ IdleChain /\ IdleTee
    /\ IdleSink /\ IdleCopy /\ IdleReadToEnd /\ IdleChars
IdleButSink ==
    /\ IdleCursor /\ IdleTake /\ IdleChain /\ IdleTee
    /\ IdleBroadcast /\ IdleCopy /\ IdleReadToEnd /\ IdleChars
IdleButCopy ==
    /\ IdleCursor /\ IdleTake /\ IdleChain /\ IdleTee
    /\ IdleBroadcast /\ IdleSink /\ IdleReadToEnd /\ IdleChars
IdleButReadToEnd ==
    /\ IdleCursor /\ IdleTake /\ IdleChain /\ IdleTee
    /\ IdleBroadcast /\ IdleSink /\ IdleCopy /\ IdleChars
IdleButChars ==
    /\ IdleCursor /\ IdleTake /\ IdleChain /\ IdleTee
    /\ IdleBroadcast /\ IdleSink /\ IdleCopy /\ IdleReadToEnd

\* Cursor::new over any storage of the three kinds.
InitCursor ==
    /\ \E kind \in Kinds, inner \in SeqsUpTo(MaxLen) :
           /\ cur = new(kind, inner)
           /\ last = Call("new", NoStyle, <<>>, <<>>, Ok(0), new(kind, inner))
    /\ hist = "new"
    /\ acc = <<>>

\* Seek arguments of ordinary use.
SmallSeekPos ==
    {FromStart(n) : n \in 0 .. MaxSeek}
        \cup {FromEnd(n) : n \in (0 - MaxSeek) .. MaxSeek}
        \cup {FromCur(n) : n \in (0 - MaxSeek) .. MaxSeek}

Seek ==
    \E style \in SmallSeekPos :
        \E r \in seek(cur, style) :
            /\ r.c.pos <= MaxPos
            /\ cur' = r.c
            /\ last' = Call("seek", style, <<>>, <<>>, r.ret, cur)
            /\ hist' = "mixed"
            /\ acc' = <<>>
            /\ UNCHANGED nonCursor

\* The caller's buffer is a fresh [0; n], as in the tests.
Read ==
    \E n \in 0 .. MaxBuf :
        LET buf == Zeros(n)
            r == read(cur, buf)
        IN  /\ cur' = r.c
            /\ last' = Call("read", NoStyle, buf, r.out, r.ret, cur)
            /\ IF hist \in {"new", "reads"}
               THEN /\ hist' = "reads"
                    /\ acc' = acc \o UpTo(r.out, r.ret.val)
               ELSE /\ hist' = "mixed"
                    /\ acc' = <<>>
            /\ UNCHANGED nonCursor

Consume ==
    \E amt \in 0 .. MaxBuf :
        /\ cur.pos + amt <= MaxPos
        /\ cur' = consume(cur, amt)
        /\ last' = Call("consume", [tag |-> "none", n |-> amt], <<>>, <<>>,
                        Ok(0), cur)
        /\ hist' = "mixed"
        /\ acc' = <<>>
        /\ UNCHANGED nonCursor

\* fill_buf takes &mut self and assigns nothing; `out` is the slice returned.
FillBuf ==
    /\ cur' = cur
    /\ last' = Call("fill_buf", NoStyle, <<>>, fill_buf(cur),
                    Ok(Len(fill_buf(cur))), cur)
    /\ hist' = "mixed"
    /\ acc' = <<>>
    /\ UNCHANGED nonCursor

Write ==
    \E data \in SeqsUpTo(MaxBuf) :
        /\ cur.kind \in {"mut_slice", "vec"}
        /\ cur.pos + Len(data) <= MaxPos
        /\ \E r \in write(cur, data) :
               /\ cur' = r.c
               /\ last' = Call("write", NoStyle, data, <<>>, r.ret, cur)
               /\ IF /\ cur.kind = "vec"
                     /\ hist = "writes" \/ (hist = "new" /\ cur.inner = <<>>)
                  THEN /\ hist' = "writes"
                       /\ acc' = acc \o data
                  ELSE /\ hist' = "mixed"
                       /\ acc' = <<>>
        /\ UNCHANGED nonCursor

Init == InitCursor /\ IdleButCursor

Next == Seek \/ Read \/ Consume \/ FillBuf \/ Write

Spec == Init /\ [][Next]_vars

\* ---------------------------------------- Cursor: seek over the full ranges

\* Positions are set with set_position and seek is called with every
\* SeekPos value.  The storage's bytes play no part: it is [0; L].
InitSeek ==
    /\ \E kind \in Kinds, L \in 0 .. MaxLen :
           /\ cur = new(kind, Zeros(L))
           /\ last = Call("new", NoStyle, <<>>, <<>>, Ok(0), new(kind, Zeros(L)))
    /\ hist = "new"
    /\ acc = <<>>
    /\ IdleButCursor

SetPosition ==
    \E p \in U64 :
        /\ cur' = set_position(cur, p)
        /\ last' = Call("set_position", [tag |-> "none", n |-> p], <<>>, <<>>,
                        Ok(0), cur)
        /\ UNCHANGED <<hist, acc, nonCursor>>

SeekAny ==
    \E style \in SeekPos :
        \E r \in seek(cur, style) :
            /\ cur' = r.c
            /\ last' = Call("seek", style, <<>>, <<>>, r.ret, cur)
            /\ UNCHANGED <<hist, acc, nonCursor>>

NextSeek == SetPosition \/ SeekAny

SpecSeek == InitSeek /\ [][NextSeek]_vars

\* ------------------------------------------------------------ Take, Bytes

\* The readers a Take, a Chain or a Tee is put over.
Readers ==
    {repeat(b) : b \in Byte}
        \cup {source(data, flaky) : data \in SeqsUpTo(MaxLen),
                                    flaky \in BOOLEAN}

\* inner.take(N)
InitTake ==
    /\ IdleButTake
    /\ \E inner \in Readers, N \in 0 .. MaxLimit :
           /\ take = take_new(inner, N)
           /\ tk = [n0 |-> N, total |-> 0, op |-> "new", buf |-> <<>>,
                    out |-> <<>>, ret |-> Ok(0), item |-> None,
                    old |-> take_new(inner, N), failed |-> FALSE,
                    inner_ret |-> Ok(0), asked |-> 0, inner0 |-> inner]

\* take.read(&mut [0; n])
TakeRead ==
    \E n \in 0 .. MaxBuf :
        \E r \in take_read(take, Zeros(n)) :
            /\ take' = r.t
            /\ tk' = [tk EXCEPT !.op = "read", !.buf = Zeros(n), !.out = r.out,
                                !.ret = r.ret, !.item = None, !.old = take,
                                !.inner_ret = r.inner_ret,
                                !.asked = r.asked,
                                !.failed = @ \/ ~r.ret.ok,
                                !.total = @ + (IF r.ret.ok THEN r.ret.val
                                                           ELSE 0)]
            /\ UNCHANGED nonTake

\* take.bytes().next()
BytesNext ==
    \E r \in bytes_next(take) :
        /\ take' = r.t
        /\ tk' = [tk EXCEPT !.op = "next", !.buf = <<0>>, !.out = <<>>,
                            !.ret = Ok(r.n), !.item = r.item, !.old = take,
                            !.inner_ret = r.read_ret, !.asked = r.asked,
                            !.failed = @ \/ ~r.item.ok,
                            !.total = @ + r.n]
        /\ UNCHANGED nonTake

NextTake == TakeRead \/ BytesNext

SpecTake == InitTake /\ [][NextTake]_vars

\* ------------------------------------------------------------------ Chain

\* Finite readers, any read of which may fail or not.
Sources == {source(data, TRUE) : data \in SeqsUpTo(MaxLen)}

\* a.chain(b)
InitChain ==
    /\ IdleButChain
    /\ \E a \in Sources, b \in Sources :
           /\ chain = chain_new(a, b)
           /\ ch = [a0 |-> a.data, b0 |-> b.data, got |-> <<>>, eof |-> FALSE,
                    op |-> "new", buf |-> <<>>, ret |-> Ok(0),
                    calls |-> <<>>, first_ret |-> Ok(0),
                    second_ret |-> Ok(0),
                    old |-> chain_new(a, b)]

\* chain.read(&mut [0; n]), by a caller that stops reading once the second
\* reader has answered Ok(0) to a non-empty buffer.
ChainRead ==
    \E n \in 0 .. MaxBuf :
        \E r \in chain_read(chain, Zeros(n)) :
            /\ ~ch.eof
            /\ chain' = r.c
            /\ ch' = [ch EXCEPT
                   !.op = "read", !.buf = Zeros(n), !.ret = r.ret,
                   !.calls = r.calls, !.first_ret = r.first_ret,
                   !.second_ret = r.second_ret, !.old = chain,
                   !.got = IF r.ret.ok THEN @ \o UpTo(r.out, r.ret.val) ELSE @,
                   !.eof = /\ n > 0
                           /\ r.calls[Len(r.calls)] = "second"
                           /\ r.ret = Ok(0)]
            /\ UNCHANGED nonChain

NextChain == ChainRead

SpecChain == InitChain /\ [][NextChain]_vars

\* -------------------------------------------------------------------- Tee

\* The sinks a Tee or a Broadcast is put over, or write_all is called on:
\* implementors of Write of limited room, any call of which may fail or
\* not, an empty growable Cursor, Cursors over fixed slices.
Sinks ==
    {writer(room, TRUE, "SinkError") : room \in 0 .. MaxLen}
        \cup {new("vec", <<>>)}
        \cup {new("mut_slice", Zeros(L)) : L \in 0 .. MaxLen}

\* The bytes a sink of Sinks has accepted since it was made.
Absorbed(w) == IF w.kind = "writer" THEN w.got ELSE UpTo(w.inner, w.pos)

\* reader.tee(out)
InitTee ==
    /\ IdleButTee
    /\ \E reader \in Sources, out \in Sinks :
           /\ tee = tee_new(reader, out)
           /\ te = [data0 |-> reader.data, seen |-> <<>>, got |-> <<>>,
                    old_got |-> <<>>, wfailed |-> FALSE, op |-> "new",
                    buf |-> <<>>, out |-> <<>>, ret |-> Ok(0),
                    read_ret |-> Ok(0), wa |-> NoWriteAll,
                    old |-> tee_new(reader, out)]

\* tee.read(&mut [0; n])
TeeRead ==
    \E n \in 0 .. MaxBuf :
        \E r \in tee_read(tee, Zeros(n)) :
            /\ tee' = r.t
            /\ te' = [te EXCEPT
                   !.op = "read", !.buf = Zeros(n), !.out = r.out,
                   !.ret = r.ret, !.read_ret = r.read_ret, !.wa = r.wa,
                   !.old = tee, !.old_got = te.got,
                   !.seen = IF r.read_ret.ok
                            THEN @ \o UpTo(r.out, r.read_ret.val) ELSE @,
                   !.got = IF r.ret.ok THEN @ \o UpTo(r.out, r.ret.val) ELSE @,
                   !.wfailed = @ \/ ~r.wa.ret.ok]
            /\ UNCHANGED nonTee

NextTee == TeeRead

SpecTee == InitTee /\ [][NextTee]_vars

\* -------------------------------------------------------------- Broadcast

\* Growable Cursors over [0; L], at any position.
VecCursors ==
    {set_position(new("vec", Zeros(L)), p) : L \in 0 .. MaxLen,
                                             p \in 0 .. MaxPos}

\* The sinks of a Broadcast: each fails with an error of its own.
FirstSinks ==
    {IF w.kind = "writer" THEN [w EXCEPT !.err = "FirstError"] ELSE w
        : w \in Sinks}

SecondSinks ==
    {IF w.kind = "writer" THEN [w EXCEPT !.err = "SecondError"] ELSE w
        : w \in Sinks}

\* The pairs of sinks a Broadcast is made of: any two sinks, or two equal
\* growable Cursors at any position.
SinkPairs ==
    (FirstSinks \X SecondSinks) \cup {<<c, c>> : c \in VecCursors}

\* first.broadcast(second)
InitBroadcast ==
    /\ IdleButBroadcast
    /\ \E pair \in SinkPairs :
           /\ bcast = broadcast_new(pair[1], pair[2])
           /\ bc = [twins |-> pair[1].kind = "vec" /\ pair[1] = pair[2],
                    op |-> "new", sent |-> <<>>, ret |-> Ok(0),
                    first_ret |-> Ok(0), second_ret |-> Ok(0),
                    wa_ret |-> Ok(0), calls |-> <<>>,
                    old |-> broadcast_new(pair[1], pair[2])]

\* The write keeps a Cursor within the positions of the model.
Fits(w, data) ==
    IF w.kind = "writer" THEN TRUE ELSE w.pos + Len(data) <= MaxPos

\* bcast.write(data)
BroadcastWrite ==
    \E data \in SeqsUpTo(MaxBuf) :
        /\ Fits(bcast.first, data)
        /\ Fits(bcast.second, data)
        /\ \E r \in broadcast_write(bcast, data) :
               /\ bcast' = r.b
               /\ bc' = [bc EXCEPT
                      !.op = "write", !.ret = r.ret,
                      !.sent = IF r.ret.ok THEN UpTo(data, r.ret.val)
                                           ELSE <<>>,
                      !.first_ret = r.first_ret, !.second_ret = Ok(0),
                      !.wa_ret = r.wa.ret, !.calls = <<>>, !.old = bcast]
        /\ UNCHANGED nonBroadcast

\* bcast.flush()
BroadcastFlush ==
    \E r \in broadcast_flush(bcast) :
        /\ bcast' = r.b
        /\ bc' = [bc EXCEPT
               !.op = "flush", !.sent = <<>>, !.ret = r.ret,
               !.first_ret = r.first_ret, !.second_ret = r.second_ret,
               !.wa_ret = Ok(0), !.calls = r.calls, !.old = bcast]
        /\ UNCHANGED nonBroadcast

NextBroadcast == BroadcastWrite \/ BroadcastFlush

SpecBroadcast == InitBroadcast /\ [][NextBroadcast]_vars

\* -------------------------------------------------------------- write_all

\* Any sink.
InitSink ==
    /\ IdleButSink
    /\ \E w \in Sinks \cup VecCursors :
           /\ sink = w
           /\ wa = [op |-> "new", buf |-> <<>>, ret |-> Ok(0), log |-> <<>>,
                    old |-> w]

\* sink.write_all(buf)
WriteAll ==
    \E buf \in SeqsUpTo(MaxBuf) :
        /\ Fits(sink, buf)
        /\ \E r \in write_all(sink, buf) :
               /\ sink' = r.w
               /\ wa' = [op |-> "write_all", buf |-> buf, ret |-> r.ret,
                         log |-> r.log, old |-> sink]
        /\ UNCHANGED nonSink

NextSink == WriteAll

SpecWriteAll == InitSink /\ [][NextSink]_vars

\* ------------------------------------------------------------------- copy

\* A finite reader and any sink.
InitCopy ==
    /\ IdleButCopy
    /\ \E r \in Sources, w \in Sinks \cup VecCursors :
           cp = [op |-> "new", r |-> r, w |-> w, ret |-> Ok(0), log |-> <<>>,
                 old |-> [r |-> r, w |-> w]]

\* copy(&mut r, &mut w)
Copy ==
    \E x \in copy(cp.r, cp.w) :
        /\ cp' = [op |-> "copy", r |-> x.r, w |-> x.w, ret |-> x.ret,
                  log |-> x.log, old |-> [r |-> cp.r, w |-> cp.w]]
        /\ UNCHANGED nonCopy

NextCopy == Copy

SpecCopy == InitCopy /\ [][NextCopy]_vars

\* ------------------------------------------------------------ read_to_end

\* A finite reader and a Vec that is full or has one spare byte.
InitReadToEnd ==
    /\ IdleButReadToEnd
    /\ \E r \in Sources, inner \in SeqsUpTo(MaxLen), spare \in 0 .. 1 :
           rte = [op |-> "new", r |-> r, buf |-> vec(inner, Len(inner) + spare),
                  ret |-> Ok(0), log |-> <<>>, lens |-> <<>>,
                  old |-> [r |-> r, buf |-> vec(inner, Len(inner) + spare)]]

\* r.read_to_end(&mut buf)
ReadToEnd ==
    \E x \in read_to_end(rte.r, rte.buf) :
        /\ rte' = [op |-> "read_to_end", r |-> x.r, buf |-> x.buf,
                   ret |-> x.ret, log |-> x.log, lens |-> x.lens,
                   old |-> [r |-> rte.r, buf |-> rte.buf]]
        /\ UNCHANGED nonReadToEnd

NextReadToEnd == ReadToEnd

SpecReadToEnd == InitReadToEnd /\ [][NextReadToEnd]_vars

\* ------------------------------------------------------------------ Chars

\* The sequences of at most n elements of S.
SeqsOf(S, n) == UNION {[1 .. k -> S] : k \in 0 .. n}

\* Scalar values at the ends of each encoded width and next to the
\* surrogates, and the third of b"Vi\xE1\xBB\x87t".
Scalars ==
    {86, 127, 128, 2047, 2048, 7879, 55295, 57344, 65535, 65536, 1114111}

\* A byte of each kind: ASCII, continuation (low and high half), first of
\* two, of three (E0 and ED restrict the second byte) and of four.
RawBytes == {86, 128, 160, 194, 224, 237, 240}

\* The UTF-8 encoding of a scalar value.
encode_utf8(c) ==
    CASE c < 128 -> <<c>>
      [] c >= 128 /\ c < 2048 -> <<192 + (c \div 64), 128 + (c % 64)>>
      [] c >= 2048 /\ c < 65536 ->
             <<224 + (c \div 4096), 128 + ((c \div 64) % 64), 128 + (c % 64)>>
      [] OTHER ->
             <<240 + (c \div 262144), 128 + ((c \div 4096) % 64),
               128 + ((c \div 64) % 64), 128 + (c % 64)>>

\* The UTF-8 encoding of a sequence of scalar values.
RECURSIVE Encoding(_)
Encoding(text) ==
    IF text = <<>> THEN <<>>
    ELSE encode_utf8(Head(text)) \o Encoding(Tail(text))

\* Cursor::new(bytes).chars() and the like: a finite reader, any read of
\* which may be short or fail, holding encoded text or any bytes.
InitChars ==
    /\ IdleButChars
    /\ \/ \E text \in SeqsOf(Scalars, MaxText) :
              /\ chars = chars_new(source(Encoding(text), TRUE))
              /\ cs = [text |-> text, encoded |-> TRUE, got |-> <<>>,
                       clean |-> TRUE, op |-> "new", item |-> NoChar,
                       seq |-> <<>>, log |-> <<>>, old |-> <<>>,
                       before |-> <<>>]
       \/ \E raw \in SeqsOf(RawBytes, MaxRaw) :
              /\ chars = chars_new(source(raw, TRUE))
              /\ cs = [text |-> <<>>, encoded |-> FALSE, got |-> <<>>,
                       clean |-> TRUE, op |-> "new", item |-> NoChar,
                       seq |-> <<>>, log |-> <<>>, old |-> <<>>,
                       before |-> <<>>]

\* chars.next()
CharsNext ==
    \E x \in chars_next(chars) :
        /\ chars' = x.c
        /\ cs' = [cs EXCEPT
                     !.got = IF x.item.some /\ x.item.ok
                             THEN Append(@, x.item.val) ELSE @,
                     !.clean = @ /\ \A i \in 1 .. Len(x.log) : x.log[i].ret.ok,
                     !.op = "next", !.item = x.item, !.seq = x.seq,
                     !.log = x.log, !.old = cs.got,
                     !.before = chars.inner.data]
        /\ UNCHANGED nonChars

NextChars == CharsNext

SpecChars == InitChars /\ [][NextChars]_vars

\* ------------------------------------------------------------ any adaptor

\* One adaptor, or the arguments of one copy or read_to_end, is made; the
\* calls are the ones of its specification above.
InitAdaptors ==
    \/ InitTake
    \/ InitChain
    \/ InitTee
    \/ InitBroadcast
    \/ InitCopy
    \/ InitReadToEnd

OfTakeRead == IdleButTake /\ TakeRead
OfBytesNext == IdleButTake /\ BytesNext
OfChainRead == IdleButChain /\ ChainRead
OfTeeRead == IdleButTee /\ TeeRead
OfBroadcastWrite == IdleButBroadcast /\ BroadcastWrite
OfBroadcastFlush == IdleButBroadcast /\ BroadcastFlush
OfCopy == IdleButCopy /\ Copy
OfReadToEnd == IdleButReadToEnd /\ ReadToEnd

NextAdaptors ==
    \/ OfTakeRead
    \/ OfBytesNext
    \/ OfChainRead
    \/ OfTeeRead
    \/ OfBroadcastWrite
    \/ OfBroadcastFlush
    \/ OfCopy
    \/ OfReadToEnd

SpecAdaptors == InitAdaptors /\ [][NextAdaptors]_vars

\* ----------------------------------------------------- Cursor: properties

\* The mathematical target of the last seek.
Target ==
    CASE last.style.tag = "FromStart" -> last.style.n
      [] last.style.tag = "FromEnd" -> Len(last.old.inner) + last.style.n
      [] last.style.tag = "FromCur" -> last.old.pos + last.style.n

\* C1: a write to a growable-buffer Cursor whose position equals the buffer
\* length keeps the old bytes, appends buf after them, returns buf.length and
\* leaves position = oldLength + buf.length; hence, from a new empty cursor,
\* a sequence of writes produces the concatenation of the written buffers.
C1_AppendAtEnd ==
    /\ (last.op = "write" /\ cur.kind = "vec"
            /\ last.old.pos = Len(last.old.inner))
        => /\ cur.inner = last.old.inner \o last.buf
           /\ last.ret = Ok(Len(last.buf))
           /\ cur.pos = Len(last.old.inner) + Len(last.buf)
    /\ (cur.kind = "vec" /\ hist = "writes")
        => /\ cur.inner = acc
           /\ cur.pos = Len(acc)

\* A second non-empty write in a row to a cursor created empty.
C1_Witness ==
    /\ cur.kind = "vec" /\ hist = "writes" /\ last.op = "write"
    /\ Len(last.old.inner) > 0 /\ Len(last.buf) > 0
    /\ Len(acc) > Len(last.buf)

\* C2: a write of buf to a growable-buffer Cursor of length L standing at
\* L + k, k > 0, yields a buffer of length L + k + buf.length: the first L
\* bytes unchanged, then k zero bytes, then buf.
C2_ZeroFilledGap ==
    (last.op = "write" /\ cur.kind = "vec"
        /\ last.old.pos > Len(last.old.inner))
    => LET L == Len(last.old.inner)
           k == last.old.pos - L
       IN  /\ Len(cur.inner) = L + k + Len(last.buf)
           /\ UpTo(cur.inner, L) = last.old.inner
           /\ \A i \in (L + 1) .. (L + k) : cur.inner[i] = 0
           /\ From(cur.inner, L + k) = last.buf

\* A non-empty buffer written past the end of a non-empty growable buffer.
C2_Witness ==
    /\ last.op = "write" /\ cur.kind = "vec"
    /\ Len(last.old.inner) > 0
    /\ last.old.pos > Len(last.old.inner)
    /\ Len(last.buf) > 0
    /\ \E i \in 1 .. Len(last.buf) : last.buf[i] # 0

\* C3: whatever calls came before, a write to a growable-buffer Cursor
\* returns Ok(buf.length) and advances position by exactly buf.length.
C3_VecWriteIsTotal ==
    (last.op = "write" /\ cur.kind = "vec")
    => /\ last.ret = Ok(Len(last.buf))
       /\ cur.pos = last.old.pos + Len(last.buf)

\* A write, after other calls, of more bytes than lie between the position
\* and the end of the buffer.
C3_Witness ==
    /\ last.op = "write" /\ cur.kind = "vec" /\ hist = "mixed"
    /\ last.old.pos < Len(last.old.inner)
    /\ Len(last.buf) > Len(last.old.inner) - last.old.pos

\* C4: seek computes n for FromStart(n), length + n for FromEnd(n) and
\* position + n for FromCur(n); a non-negative target becomes the position
\* and the value returned, also past the end of the storage; a negative
\* target fails with InvalidInput.
C4_SeekTarget ==
    (last.op = "seek")
    => IF Target >= 0
       THEN /\ last.ret = Ok(Target)
            /\ cur.pos = Target
       ELSE last.ret = InvalidInput

\* A relative seek that lands past the end of a fixed slice.
C4_Witness ==
    /\ last.op = "seek" /\ last.style.tag = "FromCur" /\ last.style.n > 0
    /\ last.old.pos > 0
    /\ cur.kind = "slice"
    /\ last.ret.ok /\ cur.pos > Len(cur.inner)

\* C5: over the full ranges of its arguments seek never wraps: it fails
\* exactly when the mathematical target is negative, and otherwise the
\* position is the mathematical target (FromStart(n) yields n for every n of
\* the unsigned type).
C5_SeekNeverWraps ==
    (last.op = "seek")
    => IF Target < 0
       THEN last.ret = InvalidInput
       ELSE /\ last.ret = Ok(Target)
            /\ cur.pos = Target

\* C6: with storage of length L, seek(FromEnd(n)) succeeds for every
\* n >= -L and fails with InvalidInput for every n < -L.
C6_SeekFromEnd ==
    (last.op = "seek" /\ last.style.tag = "FromEnd")
    => LET L == Len(last.old.inner)
       IN  /\ (last.style.n >= 0 - L) => last.ret.ok
           /\ (last.style.n < 0 - L) => last.ret = InvalidInput

\* seek(FromEnd(-L)) on storage of length L > 0: the last n that succeeds.
C6_Witness ==
    /\ last.op = "seek" /\ last.style.tag = "FromEnd"
    /\ Len(last.old.inner) > 0
    /\ last.style.n = 0 - Len(last.old.inner)
    /\ last.ret = Ok(0)

\* C32: a seek that fails with InvalidInput leaves position and storage as
\* they were before the call, and every successful seek returns the value
\* that position() reports afterwards.
C32_FailedSeekKeepsState ==
    last.op = "seek"
        => /\ last.ret = InvalidInput => cur = last.old
           /\ last.ret.ok
                  => /\ last.ret.val = cur.pos
                     /\ cur.inner = last.old.inner
                     /\ cur.kind = last.old.kind

\* A seek from a position other than 0 to before the start has failed.
C32_Witness ==
    /\ last.op = "seek" /\ last.ret = InvalidInput
    /\ last.style.tag = "FromCur"
    /\ last.old.pos > 0
    /\ cur.pos = last.old.pos

\* C7: a seek past the end of the storage succeeds and leaves the storage as
\* it was; a read from a past-end position returns 0, and so does a write on
\* a fixed mutable slice.
C7_PastEnd ==
    /\ (last.op = "seek" /\ Target > Len(last.old.inner))
        => /\ last.ret.ok
           /\ cur.pos > Len(cur.inner)
           /\ cur.inner = last.old.inner
    /\ (last.op = "read" /\ last.old.pos > Len(last.old.inner))
        => /\ last.ret = Ok(0)
           /\ cur = last.old
    /\ (last.op = "write" /\ cur.kind = "mut_slice"
            /\ last.old.pos > Len(last.old.inner))
        => /\ last.ret = Ok(0)
           /\ cur = last.old

\* A read into a non-empty buffer from past the end of non-empty storage.
C7_Witness ==
    /\ last.op = "read" /\ Len(last.buf) > 0
    /\ Len(last.old.inner) > 0
    /\ last.old.pos > Len(last.old.inner)

\* C8: with position p <= length, read copies min(buffer.length, length - p)
\* bytes, storage[p .. p+count], into the front of the buffer, advances the
\* position by that count and returns it; so reads from position 0 return
\* the storage bytes in order, each once, and then 0.
C8_ReadCopies ==
    /\ (last.op = "read" /\ last.old.pos <= Len(last.old.inner))
        => LET p == last.old.pos
               n == Min(Len(last.buf), Len(last.old.inner) - p)
           IN  /\ last.ret = Ok(n)
               /\ UpTo(last.out, n) = SubSeq(last.old.inner, p + 1, p + n)
               /\ From(last.out, n) = From(last.buf, n)
               /\ cur.pos = p + n
               /\ cur.inner = last.old.inner
    /\ (hist = "reads")
        => /\ acc = UpTo(cur.inner, cur.pos)
           /\ (Len(last.buf) > 0 /\ last.ret.val = 0) => acc = cur.inner

\* Reads alone have returned all the bytes of the storage and then 0.
C8_Witness ==
    /\ hist = "reads" /\ last.op = "read"
    /\ Len(last.buf) > 0 /\ last.ret = Ok(0)
    /\ Len(cur.inner) >= 2
    /\ acc = cur.inner

\* C9: on a fixed mutable slice of length L at position p, write returns 0
\* when p >= L and otherwise writes min(data.length, L - p) bytes at
\* storage[p..], advances the position by that count and returns it; it
\* never fails and never writes beyond the slice.
C9_MutSliceWrite ==
    (last.op = "write" /\ cur.kind = "mut_slice")
    => LET p == last.old.pos
           L == Len(last.old.inner)
           n == Min(Len(last.buf), L - p)
       IN  /\ last.ret.ok
           /\ Len(cur.inner) = L
           /\ IF p >= L
              THEN /\ last.ret = Ok(0)
                   /\ cur = last.old
              ELSE /\ last.ret = Ok(n)
                   /\ cur.pos = p + n
                   /\ cur.inner = UpTo(last.old.inner, p) \o UpTo(last.buf, n)
                                      \o From(last.old.inner, p + n)

\* A write that fits only in part.
C9_Witness ==
    /\ last.op = "write" /\ cur.kind = "mut_slice"
    /\ last.ret.ok
    /\ 0 < last.ret.val /\ last.ret.val < Len(last.buf)
    /\ cur.pos = Len(cur.inner)

\* ------------------------------------------------------- Take: properties

\* C10: the bytes a Take over a Repeat has returned never exceed its limit
\* N, whatever the buffer sizes, and when a read into a non-empty buffer
\* returns 0 (Bytes::next yields None) exactly N bytes have been returned.
C10_TakeYieldsLimit ==
    take.inner.kind = "repeat"
        => /\ tk.total <= tk.n0
           /\ (tk.op = "read" /\ Len(tk.buf) > 0 /\ tk.ret = Ok(0))
               => tk.total = tk.n0
           /\ (tk.op = "next" /\ tk.item = None) => tk.total = tk.n0

\* The limit was not a multiple of the buffer size, and a read then met it.
C10_Witness ==
    /\ take.inner.kind = "repeat"
    /\ tk.n0 = 3
    /\ tk.op = "read" /\ Len(tk.buf) = 2 /\ tk.ret = Ok(0)
    /\ tk.total = tk.n0

\* C11: every Take.read lowers the remaining quota by exactly the number of
\* bytes it returns; a read that returns an error leaves the quota as it
\* was, and a later read may still succeed.
C11_QuotaTracksReturned ==
    tk.op = "read"
        => /\ tk.ret.ok => take.limit = tk.old.limit - tk.ret.val
           /\ ~tk.ret.ok => take.limit = tk.old.limit

\* A read failed, and a later read returned a byte.
C11_Witness ==
    /\ tk.op = "read" /\ tk.failed
    /\ tk.ret.ok /\ tk.ret.val = 1
    /\ take.limit = tk.old.limit - 1

\* C12: once the remaining quota of a Take is 0, every further read returns
\* Ok(0), whatever the inner reader does.
C12_ExhaustedReturnsEof ==
    (tk.op = "read" /\ tk.old.limit = 0) => tk.ret = Ok(0)

C13_ChainConcatenates ==
    ch.eof => ch.got = ch.a0 \o ch.b0

\* C14: done_first starts false, becomes true only in a read in which the
\* first reader returned 0, is never reset, and once it is true a read
\* invokes the second reader alone.
C14_DoneFirstLatch ==
    /\ ch.op = "new" => ~chain.done_first
    /\ ch.op = "read"
        => /\ ch.old.done_first
               => chain.done_first /\ ch.calls = <<"second">>
           /\ (~ch.old.done_first /\ chain.done_first)
               => ch.calls[1] = "first" /\ ch.first_ret = Ok(0)
           /\ (~ch.old.done_first /\ ~chain.done_first)
               => ch.calls = <<"first">> /\ ch.first_ret # Ok(0)

\* The latch was set, and a later read returned bytes of the second reader
\* without invoking the first, which still had bytes.
C14_Witness ==
    /\ ch.op = "read" /\ ch.old.done_first
    /\ ch.calls = <<"second">>
    /\ ch.ret.ok /\ ch.ret.val > 0
    /\ Len(chain.first.data) > 0

\* C30 (as amended): in a Chain.read made before the switch, if the first
\* source yields n > 0 the call returns n and the second source is not read;
\* if the first source yields 0 the call latches done_first and returns the
\* result of reading the second source within the same call, so a caller
\* that passes a buffer of one byte or more never sees a 0 return at the
\* boundary while the second source still has bytes.
C30_BridgesBoundary ==
    (ch.op = "read" /\ ~ch.old.done_first)
        => /\ ch.calls[1] = "first"
           /\ (ch.first_ret.ok /\ ch.first_ret.val > 0)
                  => /\ ch.ret = ch.first_ret
                     /\ ch.calls = <<"first">>
                     /\ chain.second = ch.old.second
                     /\ ~chain.done_first
           /\ ch.first_ret = Ok(0)
                  => /\ chain.done_first
                     /\ ch.calls = <<"first", "second">>
                     /\ ch.ret.ok
                            => /\ ch.ret.val <= Len(ch.old.second.data)
                               /\ chain.second.data
                                      = SubSeq(ch.old.second.data,
                                               ch.ret.val + 1,
                                               Len(ch.old.second.data))
                     /\ ~ch.ret.ok => chain.second = ch.old.second
                     /\ (Len(ch.buf) > 0 /\ ch.old.second.data # <<>>)
                            => ch.ret # Ok(0)

\* The first reader, which had a byte, answers 0 and the same call returns
\* a byte of the second reader.
C30_Witness ==
    /\ ch.op = "read" /\ ~ch.old.done_first
    /\ Len(ch.a0) > 0
    /\ ch.first_ret = Ok(0)
    /\ ch.calls = <<"first", "second">>
    /\ ch.ret = Ok(1)
    /\ ch.got = ch.a0 \o SubSeq(ch.b0, 1, 1)

\* C30 (as stated): in a Chain.read made before the switch in which the
\* first source yields 0, the caller never sees a 0 return while the second
\* source still has bytes.
C30_NoZeroAtBoundary ==
    (ch.op = "read" /\ ~ch.old.done_first /\ ch.first_ret = Ok(0)
         /\ ch.old.second.data # <<>>)
        => ch.ret # Ok(0)

\* C33: when a read of the first source of a Chain returns an error before
\* the switch, Chain.read returns that error, done_first stays false and the
\* second source is not read; the next read consults the first source again,
\* as does every read that starts with done_first false.
C33_FirstErrorKeepsFirst ==
    /\ (ch.op = "read" /\ ~ch.old.done_first /\ ~ch.first_ret.ok)
           => /\ ch.ret = ch.first_ret
              /\ ~chain.done_first
              /\ ch.calls = <<"first">>
              /\ chain.second = ch.old.second
    /\ (ch.op = "read" /\ ~ch.old.done_first) => ch.calls[1] = "first"

\* The first reader failed while both readers still held bytes: the error
\* came back, the flag is false and both readers hold what they held.
C33_Witness ==
    /\ ch.op = "read" /\ ~ch.old.done_first
    /\ ch.calls = <<"first">> /\ ~ch.first_ret.ok
    /\ ch.ret = SourceError
    /\ ~chain.done_first
    /\ Len(chain.first.data) > 0
    /\ Len(chain.second.data) > 0

\* -------------------------------------------------------- Tee: properties

Received(old, w) ==
    IF w.kind = "writer"
    THEN From(w.got, Len(old.got))
    ELSE SubSeq(w.inner, old.pos + 1, w.pos)

\* Two growable Cursors that started equal have identical contents.
TwinsStayEqual == bc.twins => bcast.first.inner = bcast.second.inner

\* A successful Broadcast.write returns the count n the first sink returned
\* and the second sink has received exactly data[..n].
SecondReceivesPrefix ==
    (bc.op = "write" /\ bc.ret.ok)
        => /\ bc.ret = bc.first_ret
           /\ Received(bc.old.second, bcast.second) = bc.sent

\* C17: a Broadcast over two growable Cursors that start with equal contents
\* and positions keeps the two buffers identical over any writes; and every
\* successful Broadcast.write returns the count n the first sink returned,
\* the second sink having received exactly data[..n].
C17_SecondMirrorsFirst == TwinsStayEqual /\ SecondReceivesPrefix

\* C18: a Broadcast.write that returns an error has consumed no byte of its
\* buffer: neither sink has received any byte in that call.
C18_FailedWriteWritesNothing ==
    (bc.op = "write" /\ ~bc.ret.ok)
        => /\ Received(bc.old.first, bcast.first) = <<>>
           /\ Received(bc.old.second, bcast.second) = <<>>

\* C19: Broadcast.flush flushes the first sink, then the second, and returns
\* the first sink's error if its flush failed, otherwise the second's result.
C19_FlushInOrder ==
    bc.op = "flush"
        => /\ bc.calls = <<"first", "second">>
           /\ bc.ret = IF ~bc.first_ret.ok THEN bc.first_ret
                                           ELSE bc.second_ret

\* The first flush succeeded and the second failed: its error is returned.
C19_Witness ==
    /\ bc.op = "flush"
    /\ bc.first_ret.ok
    /\ bc.second_ret = Err("SecondError")
    /\ bc.ret = Err("SecondError")

\* C37: Broadcast.flush flushes the second sink also when the flush of the
\* first sink has failed; the result of the second flush is then dropped,
\* whatever it is, and the first sink's error is returned.
C37_SecondFlushedAfterFailure ==
    (bc.op = "flush" /\ ~bc.first_ret.ok)
        => /\ Len(bc.calls) = 2
           /\ bc.calls[1] = "first" /\ bc.calls[2] = "second"
           /\ bc.ret = bc.first_ret
           /\ bc.second_ret # bc.first_ret => bc.ret # bc.second_ret

\* Both flushes failed, each with its own error: the first one's is
\* returned.
C37_Witness ==
    /\ bc.op = "flush"
    /\ bc.calls = <<"first", "second">>
    /\ bc.first_ret = Err("FirstError")
    /\ bc.second_ret = Err("SecondError")
    /\ bc.ret = Err("FirstError")

\* ---------------------------------------------------- write_all: properties

\* The bytes the first k write calls of a log have accepted.
RECURSIVE Accepted(_, _)
Accepted(log, k) ==
    IF k = 0
    THEN <<>>
    ELSE Accepted(log, k - 1)
             \o UpTo(log[k].arg, IF log[k].ret.ok THEN log[k].ret.val ELSE 0)

\* C20: write_all(buf) calls write on the not yet consumed rest of buf, one
\* call after another; it returns Ok only when the sink has accepted every
\* byte of buf once and in order, returns the error of the first write call
\* that fails, and returns an EndOfFile error when a write call returns 0
\* while bytes remain.
C20_WriteAll ==
    LET n == Len(wa.log)
    IN  wa.op = "write_all"
            => /\ \A i \in 1 .. n :
                      /\ wa.log[i].arg
                           = From(wa.buf, Len(Accepted(wa.log, i - 1)))
                      /\ Len(wa.log[i].arg) > 0
                      /\ i < n => wa.log[i].ret.ok /\ wa.log[i].ret.val > 0
               /\ wa.ret.ok
                      => /\ Accepted(wa.log, n) = wa.buf
                         /\ Received(wa.old, sink) = wa.buf
               /\ ~wa.ret.ok
                      => /\ n > 0
                         /\ IF wa.log[n].ret.ok
                            THEN wa.log[n].ret = Ok(0) /\ wa.ret = EndOfFile
                            ELSE wa.ret = wa.log[n].ret
               /\ (n > 0 /\ wa.log[n].ret = Ok(0)) => wa.ret = EndOfFile

\* Two bytes went in by two write calls of one byte each.
C20_Witness ==
    /\ wa.op = "write_all" /\ wa.ret.ok
    /\ Len(wa.buf) = 2 /\ Len(wa.log) = 2
    /\ Received(wa.old, sink) = wa.buf

\* C21: write_all returns after at most buf.len() write calls: every call
\* but the last accepts at least one byte, so each call is given a shorter
\* rest than the one before, and a write that returns 0 is the last call.
C21_WriteAllTerminates ==
    LET n == Len(wa.log)
    IN  wa.op = "write_all"
            => /\ n <= Len(wa.buf)
               /\ \A i \in 1 .. n :
                      /\ i > 1 => Len(wa.log[i].arg) < Len(wa.log[i - 1].arg)
                      /\ wa.log[i].ret = Ok(0) => i = n

\* The sink took one byte of two and then returned 0: two calls, EndOfFile.
C21_Witness ==
    /\ wa.op = "write_all"
    /\ Len(wa.buf) = 2 /\ Len(wa.log) = 2
    /\ wa.log[2].ret = Ok(0)
    /\ wa.ret = EndOfFile

\* ------------------------------------------------------- copy: properties

\* The sum of the results of the successful read calls of a log.
RECURSIVE ReadTotal(_)
ReadTotal(log) ==
    IF log = <<>>
    THEN 0
    ELSE (IF log[1].call = "read" /\ log[1].ret.ok THEN log[1].ret.val ELSE 0)
             + ReadTotal(Tail(log))

\* C22: when copy succeeds, the count it returns is the sum of the non-zero
\* read results and the number of bytes the sink has accepted, and the bytes
\* the sink (a growable Cursor or any other) has received are all the bytes
\* the reader had left, in order.
C22_CopyCounts ==
    (cp.op = "copy" /\ cp.ret.ok)
        => /\ cp.ret.val = ReadTotal(cp.log)
           /\ cp.ret.val = Len(Received(cp.old.w, cp.w))
           /\ Received(cp.old.w, cp.w) = cp.old.r.data

\* Two bytes were copied to a growable Cursor by two reads of one byte.
C22_Witness ==
    /\ cp.op = "copy" /\ cp.ret = Ok(2)
    /\ cp.w.kind = "vec"
    /\ Len(cp.log) = 5
    /\ Received(cp.old.w, cp.w) = cp.old.r.data

\* C23: copy stops at the first read or write_all that fails and returns its
\* error, which carries no count: every call before the last one of a copy
\* succeeded, a failed copy ends with the failing call, and a successful one
\* with a read that returned 0.
C23_CopyAborts ==
    LET n == Len(cp.log)
    IN  cp.op = "copy"
            => /\ n > 0
               /\ \A i \in 1 .. n - 1 :
                      /\ cp.log[i].ret.ok
                      /\ cp.log[i].call = "read" => cp.log[i].ret.val > 0
               /\ IF cp.ret.ok
                  THEN cp.log[n] = Event("read", <<>>, Ok(0))
                  ELSE /\ ~cp.log[n].ret.ok
                       /\ cp.ret = cp.log[n].ret
                       /\ cp.ret.val = 0

\* A read gave a byte and the sink had no room: write_all returned EndOfFile
\* and so did copy, with no call after it.
C23_Witness ==
    /\ cp.op = "copy" /\ cp.ret = EndOfFile
    /\ Len(cp.log) = 2
    /\ cp.log[2].call = "write_all"
    /\ Len(cp.r.data) = 1

\* ------------------------------------------------ read_to_end: properties

\* The bytes returned by the successful reads of a log, in order.
RECURSIVE ReadBytes(_)
ReadBytes(log) ==
    IF log = <<>>
    THEN <<>>
    ELSE (IF log[1].call = "read" /\ log[1].ret.ok THEN log[1].arg ELSE <<>>)
             \o ReadBytes(Tail(log))

\* C24: read_to_end keeps what buf held and appends to it, in order, exactly
\* the bytes its reads returned; it returns Ok only after a read that
\* returned 0, and when a read fails it returns that read's error, the bytes
\* of the earlier reads being in buf.
C24_ReadToEnd ==
    LET n == Len(rte.log)
    IN  rte.op = "read_to_end"
            => /\ rte.buf.inner = rte.old.buf.inner \o ReadBytes(rte.log)
               /\ n > 0
               /\ \A i \in 1 .. n - 1 :
                      rte.log[i].ret.ok /\ rte.log[i].ret.val > 0
               /\ IF rte.ret.ok
                  THEN rte.log[n] = Event("read", <<>>, Ok(0))
                  ELSE ~rte.log[n].ret.ok /\ rte.ret = rte.log[n].ret

\* buf held a byte, a read appended another, the next read failed: both
\* bytes are in buf.
C24_Witness ==
    /\ rte.op = "read_to_end" /\ rte.ret = SourceError
    /\ Len(rte.old.buf.inner) = 1
    /\ Len(rte.log) = 2
    /\ Len(rte.buf.inner) = 2

\* The bytes of the write_all calls of a log that succeeded, in order.
RECURSIVE WrittenBytes(_)
WrittenBytes(log) ==
    IF log = <<>>
    THEN <<>>
    ELSE (IF log[1].call = "write_all" /\ log[1].ret.ok
          THEN log[1].arg ELSE <<>>)
             \o WrittenBytes(Tail(log))

\* s is the front of t.
StartsWith(t, s) == Len(s) <= Len(t) /\ s = SubSeq(t, 1, Len(s))

\* C38: after each call that copy makes, and when copy returns an error, the
\* bytes the sink has accepted are the front of the bytes read from the
\* source so far; the bytes of a chunk that the sink had not accepted when
\* write_all failed have left the source and are in neither.
C38_SinkHoldsPrefixOfRead ==
    LET n == Len(cp.log)
        read_so_far == ReadBytes(cp.log)
        accepted == Received(cp.old.w, cp.w)
    IN  cp.op = "copy"
            => /\ \A k \in 0 .. n :
                      StartsWith(ReadBytes(SubSeq(cp.log, 1, k)),
                                 WrittenBytes(SubSeq(cp.log, 1, k)))
               /\ StartsWith(accepted, WrittenBytes(cp.log))
               /\ StartsWith(read_so_far, accepted)
               /\ cp.old.r.data = read_so_far \o cp.r.data
               /\ (~cp.ret.ok /\ cp.log[n].call = "write_all")
                      => /\ Len(accepted) < Len(read_so_far)
                         /\ Len(cp.r.data)
                                = Len(cp.old.r.data) - Len(read_so_far)

\* Two bytes were read in one chunk, the sink accepted one and then failed:
\* the other byte is gone from the source and is not in the sink.
C38_Witness ==
    /\ cp.op = "copy" /\ ~cp.ret.ok
    /\ Len(cp.log) = 2 /\ cp.log[2].call = "write_all"
    /\ Len(cp.log[1].arg) = 2
    /\ Len(Received(cp.old.w, cp.w)) = 1
    /\ cp.r.data = <<>>

\* C35: writing an empty buffer to a growable-buffer Cursor returns Ok(0)
\* and leaves the position as it was; it leaves the storage as it was when
\* position <= length, and when position > length it extends the storage
\* with zero bytes up to the position.
C35_EmptyWrite ==
    LET L == Len(last.old.inner)
        p == last.old.pos
    IN  (last.op = "write" /\ cur.kind = "vec" /\ last.buf = <<>>)
            => /\ last.ret = Ok(0)
               /\ cur.pos = p
               /\ p <= L => cur.inner = last.old.inner
               /\ p > L
                      => /\ Len(cur.inner) = p
                         /\ \A i \in 1 .. p :
                                cur.inner[i] = IF i <= L
                                               THEN last.old.inner[i] ELSE 0

\* An empty write two past the end of a buffer of one byte has added two
\* zeros.
C35_Witness ==
    /\ last.op = "write" /\ cur.kind = "vec" /\ last.buf = <<>>
    /\ last.old.inner = <<1>> /\ last.old.pos = 3
    /\ cur.inner = <<1, 0, 0>>
    /\ cur.pos = 3

\* C34: read_to_end never passes an empty slice to the reader's read: the
\* spare capacity is at least 1 before every read, so a read returns 0 only
\* when the reader is at its end, and the length of buf grows by exactly the
\* count returned by each read that returns more than 0.
C34_NeverEmptySlice ==
    LET n == Len(rte.log)
    IN  rte.op = "read_to_end"
            => /\ Len(rte.lens) = n
               /\ \A i \in 1 .. n :
                      /\ rte.lens[i] >= 1
                      /\ rte.log[i].ret.ok => rte.log[i].ret.val <= rte.lens[i]
                      /\ rte.log[i].ret = Ok(0)
                             => i = n /\ rte.r.data = <<>>
               /\ Len(rte.buf.inner)
                      = Len(rte.old.buf.inner) + ReadTotal(rte.log)
               /\ Len(rte.buf.inner) <= rte.buf.cap

\* A full buf of one byte was given to read_to_end: room was reserved, a
\* read returned a byte, and the next one reported the end.
C34_Witness ==
    /\ rte.op = "read_to_end" /\ rte.ret = Ok(0)
    /\ Len(rte.old.buf.inner) = 1 /\ rte.old.buf.cap = 1
    /\ Len(rte.log) = 2
    /\ rte.lens[1] >= 1
    /\ Len(rte.buf.inner) = 2

\* ------------------------------------- Cursor: write inside the buffer

\* C29: for a Cursor over a growable buffer of length L at position p < L,
\* write(buf) puts buf over the bytes from p on, the first min(L - p,
\* buf.length) of them over storage[p .. p+k] and the rest after the old end,
\* and leaves every byte outside [p, p + buf.length) as it was; the new
\* length is max(L, p + buf.length), so the buffer never shrinks.
C29_OverwriteThenAppend ==
    LET L == Len(last.old.inner)
        p == last.old.pos
        n == Len(last.buf)
    IN  (last.op = "write" /\ cur.kind = "vec" /\ p < L)
            => /\ last.ret = Ok(n)
               /\ Len(cur.inner) = (IF L >= p + n THEN L ELSE p + n)
               /\ Len(cur.inner) >= L
               /\ \A i \in 1 .. Len(cur.inner) :
                      cur.inner[i] = IF i > p /\ i <= p + n
                                     THEN last.buf[i - p]
                                     ELSE last.old.inner[i]

\* Two bytes written at position 1 of a buffer of two: one overwritten, one
\* appended.
C29_Witness ==
    /\ last.op = "write" /\ cur.kind = "vec"
    /\ last.old.pos = 1 /\ last.old.inner = <<0, 0>>
    /\ last.buf = <<1, 1>>
    /\ cur.inner = <<0, 1, 1>>

\* ------------------------------------------- Cursor: fill_buf and consume

\* C27: Cursor.fill_buf returns storage[position..] when position < length
\* and an empty slice otherwise, and changes neither position nor storage;
\* consume(amt) adds amt to the position; so after a fill_buf, consume(n)
\* with n <= the returned length leaves the cursor as a read of n bytes does,
\* which returns the first n bytes of the slice fill_buf returned.
C27_FillBufConsume ==
    /\ last.op = "fill_buf"
           => /\ last.out = IF last.old.pos < Len(last.old.inner)
                            THEN SubSeq(last.old.inner, last.old.pos + 1,
                                        Len(last.old.inner))
                            ELSE <<>>
              /\ cur = last.old
              /\ \A n \in 0 .. Len(last.out) :
                     /\ consume(cur, n) = read(cur, Zeros(n)).c
                     /\ read(cur, Zeros(n)).ret = Ok(n)
                     /\ read(cur, Zeros(n)).out = SubSeq(last.out, 1, n)
    /\ last.op = "consume"
           => /\ cur.pos = last.old.pos + last.style.n
              /\ cur.inner = last.old.inner
              /\ cur.kind = last.old.kind

\* fill_buf has returned the last byte of a cursor in the middle of its
\* storage.
C27_Witness ==
    /\ last.op = "fill_buf"
    /\ cur.pos = 1 /\ cur.inner = <<0, 1>>
    /\ last.out = <<1>>

\* ------------------------------------------------------ Chars: properties

\* s is the front of t.
IsPrefix(s, t) == Len(s) <= Len(t) /\ s = SubSeq(t, 1, Len(s))

\* C25: Chars over a source holding the UTF-8 encoding of a sequence of
\* scalar values yields, while no read fails, exactly those scalar values in
\* order and then the end of the sequence, however few bytes each read of the
\* source returns.
C25_CharsDecodes ==
    (cs.encoded /\ cs.clean /\ cs.op = "next")
        => /\ cs.item.ok
           /\ IsPrefix(cs.got, cs.text)
           /\ cs.item.some <=> cs.old # cs.text
           /\ cs.item.some => cs.got = Append(cs.old, cs.item.val)

\* A character of three bytes has been put together from three reads of one
\* byte each.
C25_Witness ==
    /\ cs.encoded /\ cs.clean /\ cs.op = "next"
    /\ cs.item = SomeChar(7879)
    /\ Len(cs.log) = 3

\* C26: Chars.next yields NotUtf8 when the first byte begins no sequence,
\* when the bytes put together are not valid UTF-8 and when the source ends
\* after the first byte and before the last; it yields Other(e) only when a
\* read of the source returned the error e, and the end of the sequence only
\* when the read of a first byte returned 0.
C26_CharsErrors ==
    LET n == Len(cs.log)
        bytes == ReadBytes(cs.log)
    IN  cs.op = "next"
            => /\ n > 0
               /\ (cs.log[1].ret = Ok(1) /\ utf8_char_width(bytes[1]) = 0)
                      => cs.item = NotUtf8
               /\ (cs.log[n].ret.ok /\ bytes # <<>>
                       /\ Len(bytes) = utf8_char_width(bytes[1])
                       /\ ~from_utf8_ok(bytes))
                      => cs.item = NotUtf8
               /\ (n > 1 /\ cs.log[n].ret = Ok(0)) => cs.item = NotUtf8
               /\ cs.item.kind = "Other"
                      => ~cs.log[n].ret.ok /\ cs.item.err = cs.log[n].ret.err
               /\ ~cs.item.some => n = 1 /\ cs.log[1].ret = Ok(0)

\* The source has ended after the first two bytes of a sequence of three.
C26_Witness ==
    /\ cs.op = "next" /\ cs.item = NotUtf8
    /\ cs.seq = <<224, 160, 0>>
    /\ Len(cs.log) = 3 /\ cs.log[3].ret = Ok(0)

\* --------------------------------------------------- adaptors: properties

\* Every call of the log but the last succeeded, and the result is the last
\* call's error if it failed.
FirstErrorIsResult(log, ret) ==
    LET n == Len(log)
    IN  /\ n > 0
        /\ \A i \in 1 .. n - 1 : log[i].ret.ok
        /\ ~log[n].ret.ok => ret = log[n].ret

\* C28: Take, Chain, Tee, Broadcast, Bytes, copy and read_to_end never turn
\* an error of an underlying read or write into a successful 0-byte or
\* end-of-sequence result, never turn an underlying 0-byte read into an
\* error, and never call again what has failed in the same operation: the
\* first underlying error is the operation's result.
C28_ErrorsPassThrough ==
    /\ tk.op = "read"
           => /\ ~tk.inner_ret.ok => tk.ret = tk.inner_ret
              /\ tk.inner_ret = Ok(0) => tk.ret = Ok(0)
              /\ tk.ret.ok => tk.inner_ret.ok
    /\ tk.op = "next"
           => /\ ~tk.inner_ret.ok => tk.item = Some(tk.inner_ret)
              /\ tk.inner_ret = Ok(0) => tk.item = None
              /\ tk.item.ok => tk.inner_ret.ok
    /\ ch.op = "read"
           => /\ ch.calls \in {<<"first">>, <<"second">>, <<"first", "second">>}
              /\ ch.calls = <<"first">> => ch.ret = ch.first_ret
              /\ ch.calls # <<"first">>
                     => /\ ch.first_ret = Ok(0)
                        /\ ~ch.second_ret.ok => ch.ret = ch.second_ret
                        /\ ch.second_ret = Ok(0) => ch.ret = Ok(0)
                        /\ ch.ret.ok => ch.second_ret.ok
    /\ te.op = "read"
           => /\ ~te.read_ret.ok => te.ret = te.read_ret /\ te.wa = NoWriteAll
              /\ te.read_ret = Ok(0) => te.ret = Ok(0)
              /\ te.read_ret.ok
                     => /\ ~te.wa.ret.ok => te.ret = te.wa.ret
                        /\ te.wa.ret.ok => te.ret = te.read_ret
              /\ te.wa.log # <<>> => FirstErrorIsResult(te.wa.log, te.wa.ret)
    /\ bc.op = "write"
           => /\ ~bc.first_ret.ok => bc.ret = bc.first_ret /\ bc.wa_ret = Ok(0)
              /\ bc.first_ret.ok
                     => /\ ~bc.wa_ret.ok => bc.ret = bc.wa_ret
                        /\ bc.wa_ret.ok => bc.ret = bc.first_ret
    /\ bc.op = "flush"
           => /\ bc.calls = <<"first", "second">>
              /\ ~bc.first_ret.ok => bc.ret = bc.first_ret
              /\ (bc.first_ret.ok /\ ~bc.second_ret.ok)
                     => bc.ret = bc.second_ret
              /\ bc.ret.ok => bc.first_ret.ok /\ bc.second_ret.ok
    /\ cp.op = "copy"
           => /\ FirstErrorIsResult(cp.log, cp.ret)
              /\ cp.log[Len(cp.log)].ret.ok
                     => cp.ret.ok /\ cp.log[Len(cp.log)].ret = Ok(0)
    /\ rte.op = "read_to_end"
           => /\ FirstErrorIsResult(rte.log, rte.ret)
              /\ rte.log[Len(rte.log)].ret.ok
                     => rte.ret.ok /\ rte.log[Len(rte.log)].ret = Ok(0)

\* A Bytes over a Take has yielded a byte, and then the error of the read
\* that failed.
C28_Witness ==
    /\ tk.op = "next" /\ tk.total > 0
    /\ tk.inner_ret = SourceError
    /\ tk.item = Some(SourceError)

\* C36: each Chars.next takes from the source exactly 1 byte when the first
\* byte has width 1 or begins no sequence, and exactly width bytes when the
\* first byte announces a width of 2 to 4 and the source supplies them; the
\* continuation bytes taken for a sequence that is then found not valid are
\* gone: the following next starts after them.
C36_CharsConsumes ==
    LET bytes == ReadBytes(cs.log)
        taken == Len(cs.before) - Len(chars.inner.data)
        width == utf8_char_width(bytes[1])
        clean == \A i \in 1 .. Len(cs.log) : cs.log[i].ret.ok
    IN  cs.op = "next"
            => /\ taken = Len(bytes)
               /\ bytes = SubSeq(cs.before, 1, taken)
               /\ chars.inner.data
                      = SubSeq(cs.before, taken + 1, Len(cs.before))
               /\ bytes # <<>>
                      => /\ width <= 1 => taken = 1
                         /\ (width >= 2 /\ clean /\ Len(cs.before) >= width)
                                => taken = width
                         /\ taken <= (IF width = 0 THEN 1 ELSE width)
               /\ (cs.item = NotUtf8 /\ clean /\ Len(cs.before) >= width
                       /\ width >= 2)
                      => chars.inner.data
                             = SubSeq(cs.before, width + 1, Len(cs.before))

\* The byte after the first of a sequence of two was an ASCII byte: the
\* sequence is not valid, both bytes are gone and one byte is left.
C36_Witness ==
    /\ cs.op = "next" /\ cs.item = NotUtf8
    /\ cs.before = <<194, 86, 86>>
    /\ chars.inner.data = <<86>>

=============================================================================
